---- MODULE Spec2Model ----
(***************************************************************************)
(* Model of the karma-core contract of agent-karma: the rating store, the  *)
(* balance ledger, the scoring engine, the rate limiter and the dispute    *)
(* manager, one action per execute message.  Every handler is translated   *)
(* as the function in src/ is written: a handler that writes to storage    *)
(* and then returns Err leaves the write in the storage it was handed.     *)
(***************************************************************************)
EXTENDS Integers, Sequences, FiniteSets, TLC

(***************************************************************************)
(* Bounds of the model                                                     *)
(***************************************************************************)
\* block time of the first message, in seconds (large enough for every
\* Timestamp::minus_seconds of the code to stay above zero)
T0 == 1000000
\* seconds of block time the model lets pass after T0
MaxElapsed == 3601
\* ratings the store accepts before the model stops submitting
MaxRatings == 24
\* messages the model sends to the contract
MaxTx == 3

\* senders of the admin-only messages: the admin and one other
Principals == {"admin", "a1"}
Agents == {"a1", "a2"}
\* principals a rating may name: the agents and one without a score record
Rated == Agents \cup {"admin"}
\* scores written to KARMA_SCORES before the first message: one principal at
\* the ceiling, one with a small score
SeedScore(agent) == IF agent = "a1" THEN 10000 ELSE 50
\* scores a SubmitRating message may carry (u8)
RatingScores == {0, 1, 10}
\* amounts handed to spend_karma and award_karma
Amounts == {0, 2, 45, 46, 101, 10000}
\* stakes a CreateDispute message may carry
Stakes == {0, 3, 10000}
\* the wall clock read by SystemTime::now(): the unwrap_or_default fallback
WallClocks == {0}

(***************************************************************************)
(* Interaction hashes: a string is represented by what the code reads of   *)
(* it: its identity, its length, whether every char is a hex digit,        *)
(* whether every char is alphanumeric or '_', and the value of its last    *)
(* eight chars read as a hex number (-1 when they are not hex digits).     *)
(***************************************************************************)
Hash(str, len, hex, alnum, suffix) ==
    [str |-> str, len |-> len, hex |-> hex, alnum |-> alnum, suffix |-> suffix]
\* 64 hex chars ending in 00000000: interaction at the current time
HashFresh == Hash("h0", 64, TRUE, TRUE, 0)
\* 64 hex chars ending in 00015181: interaction 86401 s ago
HashExpired == Hash("h15181", 64, TRUE, TRUE, 86401)
\* 10 chars: too short
HashShort == Hash("hshort", 10, TRUE, TRUE, 0)
\* 80 chars of [a-z_], not hex: passes the format check, has no hex suffix
HashWord == Hash("hword", 80, FALSE, TRUE, -1)
Hashes == {HashFresh, HashExpired}

VARIABLES
    now,                  \* env.block.time.seconds()
    height,               \* env.block.height
    tx_count,             \* messages the contract has executed
    config,               \* CONFIG
    karma_scores,         \* KARMA_SCORES: address -> KarmaScore
    karma_balance,        \* KARMA_BALANCE: address -> <<earned, spent>>
    ratings,              \* ratings(): rating id -> StoredRating
    rating_trackers,      \* RATING_TRACKERS: <<hash, rater>> -> RatingTracker
    rating_counter,       \* RATING_COUNTER
    rate_limit_trackers,  \* RATE_LIMIT_TRACKERS: address -> RateLimitTracker
    dispute_cases,        \* DISPUTE_CASES: case id -> DisputeCase
    compliance_violations,\* COMPLIANCE_VIOLATIONS: violation id -> record
    karma_penalties,      \* KARMA_PENALTIES: penalty key -> amount
    karma_history,        \* KARMA_HISTORY: <<address, seconds>> -> calculation
    leaderboard,          \* LEADERBOARD: score -> address
    oracle_data,          \* ORACLE_DATA: <<address, data type>> -> data hash
    lastResult            \* what the last call returned to its caller

vars == <<now, height, tx_count, config, karma_scores, karma_balance, ratings, rating_trackers,
          rating_counter, rate_limit_trackers, dispute_cases,
          compliance_violations, karma_penalties, karma_history, leaderboard,
          oracle_data, lastResult>>

(***************************************************************************)
(* Storage as the handlers see it (deps.storage)                           *)
(***************************************************************************)
Storage ==
    [config |-> config, karma_scores |-> karma_scores,
     karma_balance |-> karma_balance, ratings |-> ratings,
     rating_trackers |-> rating_trackers, rating_counter |-> rating_counter,
     rate_limit_trackers |-> rate_limit_trackers,
     dispute_cases |-> dispute_cases,
     compliance_violations |-> compliance_violations,
     karma_penalties |-> karma_penalties, karma_history |-> karma_history,
     leaderboard |-> leaderboard, oracle_data |-> oracle_data]

Commit(st) ==
    /\ config' = st.config
    /\ karma_scores' = st.karma_scores
    /\ karma_balance' = st.karma_balance
    /\ ratings' = st.ratings
    /\ rating_trackers' = st.rating_trackers
    /\ rating_counter' = st.rating_counter
    /\ rate_limit_trackers' = st.rate_limit_trackers
    /\ dispute_cases' = st.dispute_cases
    /\ compliance_violations' = st.compliance_violations
    /\ karma_penalties' = st.karma_penalties
    /\ karma_history' = st.karma_history
    /\ leaderboard' = st.leaderboard
    /\ oracle_data' = st.oracle_data

\* Map::save
Put(f, k, v) == [x \in (DOMAIN f) \cup {k} |-> IF x = k THEN v ELSE f[x]]
EmptyMap == [x \in {} |-> 0]

Min(a, b) == IF a <= b THEN a ELSE b
Max(a, b) == IF a >= b THEN a ELSE b

\* Result<T, ContractError>
NoError == [kind |-> "", reason |-> "", info |-> <<>>]
Error(kind, reason, info) == [kind |-> kind, reason |-> reason, info |-> info]
Ok(st, val) == [ok |-> TRUE, err |-> NoError, st |-> st, val |-> val]
Err(e, st) == [ok |-> FALSE, err |-> e, st |-> st, val |-> 0]


(***************************************************************************)
(* helpers.rs: the balance ledger                                          *)
(***************************************************************************)
\* impl Default for KarmaScore
KarmaScoreDefault ==
    [current_score |-> 0, previous_score |-> 0, last_updated |-> 0,
     total_ratings |-> 0, average_rating |-> 0, interaction_count |-> 0]

\* KARMA_SCORES.may_load(..).unwrap_or_default()
LoadKarmaOrDefault(st, agent) ==
    IF agent \in DOMAIN st.karma_scores THEN st.karma_scores[agent]
    ELSE KarmaScoreDefault

get_agent_karma_score(st, agent) == LoadKarmaOrDefault(st, agent).current_score

\* KARMA_BALANCE.may_load(..).unwrap_or((0, 0))
LoadBalance(st, agent) ==
    IF agent \in DOMAIN st.karma_balance THEN st.karma_balance[agent]
    ELSE <<0, 0>>

MINIMUM_BALANCE == 5
DAILY_CAP == 100
MAX_KARMA_CAP == 10000

BelowMinimumBalanceMutant(remaining) == remaining < MINIMUM_BALANCE - 1
\* remaining_karma < minimum_balance
BelowMinimumBalance(remaining) == remaining < MINIMUM_BALANCE

spend_karmaMutant(st, agent, amount) ==
    LET current_karma == get_agent_karma_score(st, agent)
    IN  IF current_karma < amount
        THEN Err(Error("InsufficientKarma", "", <<amount, current_karma>>), st)
        ELSE IF BelowMinimumBalance(current_karma - amount)
        THEN Err(Error("MinimumRequirementsNotMet", "minimum_balance",
                       <<MINIMUM_BALANCE, current_karma, amount, current_karma - amount>>), st)
        ELSE IF agent \notin DOMAIN st.karma_scores
        THEN Err(Error("Std", "not_found", <<>>), st)
        ELSE Ok([st EXCEPT !.karma_scores[agent].current_score = @ - amount], 0)

spend_karma(st, agent, amount) ==
    LET current_karma == get_agent_karma_score(st, agent)
        remaining_karma == current_karma - amount
    IN  IF current_karma < amount
        THEN Err(Error("InsufficientKarma", "", <<amount, current_karma>>), st)
        ELSE IF BelowMinimumBalance(remaining_karma)
        THEN Err(Error("MinimumRequirementsNotMet", "minimum_balance",
                       <<MINIMUM_BALANCE, current_karma, amount, remaining_karma>>), st)
        ELSE IF agent \notin DOMAIN st.karma_scores
        THEN Err(Error("Std", "not_found", <<>>), st)
        ELSE LET ks == [st.karma_scores[agent] EXCEPT
                            !.current_score = @ - amount]
                 st1 == [st EXCEPT !.karma_scores = Put(@, agent, ks)]
                 bal == LoadBalance(st1, agent)
             IN  Ok([st1 EXCEPT !.karma_balance =
                        Put(@, agent, <<bal[1], bal[2] + amount>>)], 0)

AdjustedAmountMutant(amount) == amount
\* std::cmp::min(amount, daily_cap)
AdjustedAmount(amount) == Min(amount, DAILY_CAP)

CapScoreMutant(new_score) == new_score
\* std::cmp::min(new_score, max_karma_cap)
CapScore(new_score) == Min(new_score, MAX_KARMA_CAP)

award_karma(st, agent, amount) ==
    LET adjusted_amount == AdjustedAmount(amount)
        karma_score == LoadKarmaOrDefault(st, agent)
        new_score == karma_score.current_score + adjusted_amount
        ks == [karma_score EXCEPT !.current_score = CapScore(new_score)]
        st1 == [st EXCEPT !.karma_scores = Put(@, agent, ks)]
        bal == LoadBalance(st1, agent)
    IN  Ok([st1 EXCEPT !.karma_balance =
               Put(@, agent, <<bal[1] + adjusted_amount, bal[2]>>)], 0)

BaseEarning(rating_score) ==
    CASE rating_score = 6 -> 5
      [] rating_score = 7 -> 10
      [] rating_score = 8 -> 20
      [] rating_score = 9 -> 35
      [] rating_score = 10 -> 50
      [] OTHER -> 0

RaterBonusMutant(base_earning, rater_karma) ==
    IF rater_karma >= 500 THEN base_earning \div 2 ELSE 0

RaterBonus(base_earning, rater_karma) ==
    IF rater_karma >= 500 THEN base_earning \div 2
    ELSE IF rater_karma >= 200 THEN base_earning \div 4
    ELSE 0

earn_karma_from_rating(st, agent, rating_score, rater_karma) ==
    IF rating_score < 6 THEN Ok(st, 0)
    ELSE LET base_earning == BaseEarning(rating_score)
             total_earning == base_earning + RaterBonus(base_earning, rater_karma)
             r == award_karma(st, agent, total_earning)
         IN  Ok(r.st, total_earning)

PenaltyAmount(rating_score) ==
    CASE rating_score = 3 -> 5
      [] rating_score = 2 -> 15
      [] rating_score = 1 -> 30
      [] OTHER -> 0

apply_karma_penalty(st, agent, rating_score) ==
    IF rating_score >= 4 THEN Ok(st, 0)
    ELSE LET penalty == PenaltyAmount(rating_score)
             karma_score == LoadKarmaOrDefault(st, agent)
             ks == [karma_score EXCEPT !.current_score =
                        IF @ >= penalty THEN @ - penalty ELSE 0]
         IN  Ok([st EXCEPT !.karma_scores = Put(@, agent, ks)], penalty)

\* the rating id is the text "rater:rated:hash:seconds"
generate_rating_id(rater, rated_agent, interaction_hash, timestamp) ==
    rater \o ":" \o rated_agent \o ":" \o interaction_hash.str \o ":"
          \o ToString(timestamp)

validate_interaction_hash(h) ==
    IF h.len < 32 \/ h.len > 128 THEN FALSE
    ELSE LET is_valid_hex == h.hex
             is_repeated_pattern == h.len >= 64 /\ h.alnum
         IN  is_valid_hex \/ is_repeated_pattern

RequiredKarma(st, operation) ==
    CASE operation = "rating" -> st.config.karma_config.min_karma_for_rating
      [] operation = "voting" -> st.config.karma_config.min_karma_for_voting
      [] operation = "proposal" -> st.config.karma_config.min_karma_for_proposal
      [] OTHER -> 0

check_minimum_requirements(st, agent, operation) ==
    LET agent_karma == get_agent_karma_score(st, agent)
        required_karma == RequiredKarma(st, operation)
    IN  IF agent_karma < required_karma
        THEN Err(Error("MinimumRequirementsNotMet", "insufficient_karma",
                       <<required_karma, agent_karma>>), st)
        ELSE Ok(st, 0)

(***************************************************************************)
(* compliance.rs: the rate limiter                                         *)
(***************************************************************************)
SPAM_RATING_THRESHOLD == 10
RATING_PATTERN_WINDOW == 3600
BOT_BEHAVIOR_THRESHOLD == 50
KARMA_PENALTY_MULTIPLIER == 10

BaseLimit(action_type) ==
    CASE action_type = "rating" -> SPAM_RATING_THRESHOLD
      [] action_type = "interaction" -> BOT_BEHAVIOR_THRESHOLD
      [] OTHER -> 20

EffectiveLimitMutant(action_type, score) == BaseLimit(action_type)
\* (base_limit as f64 * karma_multiplier) as u32, the multiplier being
\* 2.0, 1.5, 1.2 or 1.0: exact on the three base limits
EffectiveLimit(action_type, score) ==
    LET base_limit == BaseLimit(action_type)
    IN  IF score > 1000 THEN base_limit * 2
        ELSE IF score > 500 THEN (base_limit * 3) \div 2
        ELSE IF score > 100 THEN (base_limit * 6) \div 5
        ELSE base_limit

WindowPassedMutant(elapsed) == elapsed >= RATING_PATTERN_WINDOW
\* current_time.seconds() - tracker.window_start.seconds() > RATING_PATTERN_WINDOW
WindowPassed(elapsed) == elapsed > RATING_PATTERN_WINDOW

LimitReachedMutant(count, effective_limit) == count > effective_limit
\* tracker.count >= effective_limit
LimitReached(count, effective_limit) == count >= effective_limit

\* returns val = TRUE (allowed) or FALSE (limit reached)
check_rate_limit(st, current_time, agent, action_type) ==
    LET karma_score == LoadKarmaOrDefault(st, agent)
        effective_limit == EffectiveLimit(action_type, karma_score.current_score)
        loaded == IF agent \in DOMAIN st.rate_limit_trackers
                  THEN st.rate_limit_trackers[agent]
                  ELSE [agent_address |-> agent, action_type |-> action_type,
                        count |-> 0, window_start |-> current_time,
                        last_action |-> current_time]
        tracker == IF WindowPassed(current_time - loaded.window_start)
                   THEN [loaded EXCEPT !.count = 0, !.window_start = current_time]
                   ELSE loaded
    IN  IF LimitReached(tracker.count, effective_limit)
        THEN Ok(st, FALSE)
        ELSE Ok([st EXCEPT !.rate_limit_trackers =
                    Put(@, agent, [tracker EXCEPT !.count = @ + 1,
                                                  !.last_action = current_time])],
                TRUE)

(***************************************************************************)
(* karma.rs: the scoring engine                                            *)
(***************************************************************************)
DECAY_WEEK_THRESHOLD == 604800
DECAY_MONTH_THRESHOLD == 2592000
DECAY_QUARTER_THRESHOLD == 7776000
BASE_RATING_WEIGHT == 100
INTERACTION_BONUS_WEIGHT == 10
HIGH_KARMA_INTERACTION_BONUS == 20
LOW_KARMA_INTERACTION_PENALTY == 5
CONSISTENCY_BONUS_THRESHOLD == 10
CONSISTENCY_BONUS_VALUE == 50
PERFORMANCE_WEIGHT == 15
CROSS_CHAIN_WEIGHT == 10
SENTIMENT_WEIGHT == 5
\* 100 days in seconds: age_days * 0.01 = age_seconds / HundredDays
HundredDays == 8640000

RECURSIVE SumFn(_)
SumFn(f) ==
    IF DOMAIN f = {} THEN 0
    ELSE LET x == CHOOSE y \in DOMAIN f : TRUE
         IN  f[x] + SumFn([y \in (DOMAIN f) \ {x} |-> f[y]])

RECURSIVE ProdFn(_)
ProdFn(f) ==
    IF DOMAIN f = {} THEN 1
    ELSE LET x == CHOOSE y \in DOMAIN f : TRUE
         IN  f[x] * ProdFn([y \in (DOMAIN f) \ {x} |-> f[y]])

RECURSIVE Gcd(_, _)
Gcd(a, b) == IF b = 0 THEN a ELSE Gcd(b, a % b)

\* the ratings of the rated_agent index under one prefix: ids of the store
AgentRatingIds(st, agent) ==
    {id \in DOMAIN st.ratings : st.ratings[id].rating.rated_address = agent}

\* current_time.seconds().saturating_sub(rating.timestamp.seconds())
AgeSeconds(wall, r) == Max(0, wall - r.rating.timestamp)

\* recency_weight = 1 / (1 + age_days * 0.01), as a reduced fraction
RecencyNum(age) == HundredDays \div Gcd(HundredDays, HundredDays + age)
RecencyDen(age) == (HundredDays + age) \div Gcd(HundredDays, HundredDays + age)

\* quality_weight 0.8 or 1.0, in fifths
QualityFifths(score) == IF score <= 2 \/ score >= 9 THEN 4 ELSE 5

\* The f64 products of the base score come out one ulp under the integer the
\* exact value is for these score multisets (every age 0, scores among the
\* valid RatingScores, up to four ratings), and the cast to u128 truncates.
F64Shortfall(scores) ==
    LET cnt(s) == Cardinality({i \in DOMAIN scores : scores[i] = s})
        n == Cardinality(DOMAIN scores)
    IN  IF \/ (n = 3 /\ cnt(1) = 1 /\ cnt(10) = 2)
           \/ (n = 3 /\ cnt(10) = 3)
           \/ (n = 4 /\ cnt(3) = 1 /\ cnt(8) = 3)
        THEN 1 ELSE 0

\* rating.score of the ratings, by id
RatingScoresOf(st, ids) == [id \in ids |-> st.ratings[id].rating.score]

\* final_weight = recency_weight * quality_weight, over 5 * the product of den
FinalWeights(st, ids, wall, den) ==
    [id \in ids |-> QualityFifths(st.ratings[id].rating.score)
                    * RecencyNum(AgeSeconds(wall, st.ratings[id]))
                    * (ProdFn(den) \div den[id])]

\* (exponential_factor * BASE_RATING_WEIGHT * rating_count) as u128, num / dn
KarmaPoints(num, dn, shortfall) ==
    (num \div dn) - (IF num % dn = 0 /\ num > 0 THEN shortfall ELSE 0)

\* weighted_average = total_weighted_score / total_weight against 5.0
BaseKarma(total_weighted_score, total_weight, rating_count, shortfall) ==
    IF total_weighted_score >= 5 * total_weight
    THEN \* ((avg - 5) / 5)^2 * BASE_RATING_WEIGHT * rating_count
         KarmaPoints((total_weighted_score - 5 * total_weight)
                     * (total_weighted_score - 5 * total_weight)
                     * BASE_RATING_WEIGHT * rating_count,
                     25 * total_weight * total_weight, shortfall)
    ELSE \* (1 - (5 - avg) / 4) * BASE_RATING_WEIGHT * 0.1
         Max(0, ((total_weighted_score - total_weight) * BASE_RATING_WEIGHT)
                \div (40 * total_weight))

\* the values the function returns, from the sums its loop leaves; the
\* average is format!("{:.2}", weighted_average), in hundredths
BaseScoreFromTotals(total_weighted_score, total_weight, rating_count, shortfall) ==
    <<BaseKarma(total_weighted_score, total_weight, rating_count, shortfall),
      (200 * total_weighted_score + total_weight) \div (2 * total_weight),
      rating_count>>

\* the loop over the ratings: total_weighted_score and total_weight
BaseScoreFromWeights(scores, weight, shortfall) ==
    BaseScoreFromTotals(SumFn([id \in DOMAIN scores |-> scores[id] * weight[id]]),
                        SumFn(weight), Cardinality(DOMAIN scores), shortfall)

\* <<base_karma, average (hundredths, "{:.2}"), rating_count>>
calculate_base_score_enhanced(st, ids, wall) ==
    IF ids = {} THEN <<0, 0, 0>>
    ELSE BaseScoreFromWeights(
             RatingScoresOf(st, ids),
             FinalWeights(st, ids, wall,
                          [id \in ids |-> RecencyDen(AgeSeconds(wall, st.ratings[id]))]),
             IF \A id \in ids : AgeSeconds(wall, st.ratings[id]) = 0
             THEN F64Shortfall(RatingScoresOf(st, ids)) ELSE 0)

DecayPercentMutant(elapsed) ==
    IF elapsed <= DECAY_WEEK_THRESHOLD THEN 100
    ELSE IF elapsed <= DECAY_MONTH_THRESHOLD THEN 95
    ELSE IF elapsed <= DECAY_QUARTER_THRESHOLD THEN 85
    ELSE 100
\* the decay factor, in percent
DecayPercent(elapsed) ==
    IF elapsed <= DECAY_WEEK_THRESHOLD THEN 100
    ELSE IF elapsed <= DECAY_MONTH_THRESHOLD THEN 95
    ELSE IF elapsed <= DECAY_QUARTER_THRESHOLD THEN 85
    ELSE 70

calculate_time_decay(st, current_time, agent) ==
    LET last_activity == IF agent \in DOMAIN st.karma_scores
                         THEN st.karma_scores[agent].last_updated
                         ELSE current_time
    IN  DecayPercent(current_time - last_activity)

RECURSIVE Pow2Floor(_)
\* the largest power of two that is <= r (r >= 1)
Pow2Floor(r) == IF r < 2 THEN 1 ELSE 2 * Pow2Floor(r \div 2)

\* (base_score as f64 * decay_factor) as u128.  0.95 and 0.85 give the exact
\* floor; the f64 nearest 0.7 lies under 0.7, and the product of a multiple
\* of ten comes out under the integer when its mantissa is above 1.75.
apply_time_decay(base_score, percent) ==
    LET r == (base_score * percent) \div 100
    IN  IF percent = 70 /\ (base_score * percent) % 100 = 0 /\ r > 0
           /\ 4 * r > 7 * Pow2Floor(r)
        THEN r - 1 ELSE r

\* the byte order of the addresses and hash texts of the model, which is the
\* order of the rating ids "rater:rated:hash:seconds" in the store
AddrRank(a) == CASE a = "a1" -> 1 [] a = "a2" -> 2 [] a = "admin" -> 3 [] OTHER -> 4
HashRank(h) ==
    CASE h = "h0" -> 1 [] h = "h15181" -> 2 [] h = "hshort" -> 3
      [] h = "hword" -> 4 [] OTHER -> 5

RatingBefore(r1, r2) ==
    LET k1 == <<AddrRank(r1.rating.rater_address), AddrRank(r1.rating.rated_address),
                HashRank(r1.rating.interaction_hash), r1.rating.timestamp>>
        k2 == <<AddrRank(r2.rating.rater_address), AddrRank(r2.rating.rated_address),
                HashRank(r2.rating.interaction_hash), r2.rating.timestamp>>
    IN  \E i \in 1..4 : k1[i] < k2[i] /\ \A j \in 1..(i - 1) : k1[j] = k2[j]

RECURSIVE SetToSeq(_)
SetToSeq(S) ==
    IF S = {} THEN <<>>
    ELSE LET x == CHOOSE y \in S : TRUE IN <<x>> \o SetToSeq(S \ {x})

\* Order::Ascending over the rated_agent index: the ratings of an agent by id
OrderedRatings(st, ids) ==
    SortSeq(SetToSeq({st.ratings[id] : id \in ids}), RatingBefore)

calculate_interaction_bonus_enhanced(st, ids, wall) ==
    LET interaction_count == Cardinality(ids)
        base_bonus ==
            IF interaction_count <= 10
            THEN interaction_count * INTERACTION_BONUS_WEIGHT
            ELSE IF interaction_count <= 50
            THEN 10 * INTERACTION_BONUS_WEIGHT
                 + (interaction_count - 10) * (INTERACTION_BONUS_WEIGHT \div 2)
            ELSE 10 * INTERACTION_BONUS_WEIGHT
                 + 40 * (INTERACTION_BONUS_WEIGHT \div 2)
                 + (interaction_count - 50) * (INTERACTION_BONUS_WEIGHT \div 4)
        recent_ratings ==
            Cardinality({id \in ids : AgeSeconds(wall, st.ratings[id]) <= 2592000})
        frequency_bonus ==
            IF recent_ratings >= 5 THEN INTERACTION_BONUS_WEIGHT * 2 ELSE 0
        unique_raters == {st.ratings[id].rating.rater_address : id \in ids}
        diversity_bonus ==
            IF Cardinality(unique_raters) >= 5 THEN INTERACTION_BONUS_WEIGHT ELSE 0
    IN  IF interaction_count = 0 THEN 0
        ELSE base_bonus + frequency_bonus + diversity_bonus

SeqSum(s) == SumFn(s)

\* recent_avg > early_avg + 1.0 over the two halves of the ordered ratings
ImprovementBonus(ordered) ==
    LET half == Len(ordered) \div 2
        early == [i \in 1..half |-> ordered[i].rating.score]
        recent == [i \in 1..(Len(ordered) - half) |-> ordered[half + i].rating.score]
    IN  IF Len(ordered) >= 10
           /\ SeqSum(recent) * half > SeqSum(early) * (Len(ordered) - half)
                                      + half * (Len(ordered) - half)
        THEN INTERACTION_BONUS_WEIGHT * 3 ELSE 0

RaterKarmaOfMutant(st, id) == 0
\* the rater's current_score, 0 without a record
RaterKarmaOf(st, id) ==
    IF st.ratings[id].rating.rater_address \in DOMAIN st.karma_scores
    THEN st.karma_scores[st.ratings[id].rating.rater_address].current_score ELSE 0

calculate_contextual_modifiers_enhanced(st, ids) ==
    IF ids = {} THEN 0
    ELSE
    LET score(id) == st.ratings[id].rating.score
        high_ratings == Cardinality({id \in ids : score(id) >= 8})
        total_ratings == Cardinality(ids)
        consistency == IF high_ratings >= CONSISTENCY_BONUS_THRESHOLD
                       THEN CONSISTENCY_BONUS_VALUE ELSE 0
        \* high_ratings / total_ratings >= 0.9
        excellence == IF total_ratings >= 20 /\ 10 * high_ratings >= 9 * total_ratings
                      THEN CONSISTENCY_BONUS_VALUE * 2 ELSE 0
        poor_ratings == Cardinality({id \in ids : score(id) < 4})
        very_poor_ratings == Cardinality({id \in ids : score(id) <= 2})
        high_karma_interactions ==
            Cardinality({id \in ids : RaterKarmaOf(st, id) >= 500})
        low_karma_interactions ==
            Cardinality({id \in ids : RaterKarmaOf(st, id) < 100})
        gaming == IF low_karma_interactions > total_ratings \div 2
                  THEN LOW_KARMA_INTERACTION_PENALTY * 2 ELSE 0
    IN  consistency + excellence
        - poor_ratings * LOW_KARMA_INTERACTION_PENALTY
        - very_poor_ratings * LOW_KARMA_INTERACTION_PENALTY * 2
        + ImprovementBonus(OrderedRatings(st, ids))
        + high_karma_interactions * HIGH_KARMA_INTERACTION_BONUS
        - gaming

apply_contextual_modifiers(base_score, modifier) ==
    IF modifier >= 0 THEN base_score + modifier
    ELSE IF base_score >= -modifier THEN base_score + modifier
    ELSE 0

RECURSIVE Digits(_)
\* the decimal digits of n, first digit first
Digits(n) == IF n < 10 THEN <<n>> ELSE Digits(n \div 10) \o <<n % 10>>

\* chars().filter_map(to_digit(16)).skip(k).sum(); data_hash is the text
\* "{seconds}:{len}", d its chars that are hex digits
DigitSumSkipping(data_hash, k) ==
    LET d == Digits(data_hash.seconds) \o Digits(data_hash.len)
    IN  SumFn([i \in {j \in 1..Len(d) : j > k} |-> d[i]])

parse_oracle_performance_data(data_hash) == (DigitSumSkipping(data_hash, 0) % 41) + 60
parse_oracle_cross_chain_data(data_hash) == (DigitSumSkipping(data_hash, 1) % 81) + 20
parse_oracle_sentiment_data(data_hash) == (DigitSumSkipping(data_hash, 2) % 61) + 40

calculate_external_factors_enhancedMutant(st, agent) ==
    IF \E key \in DOMAIN st.oracle_data : key[1] = agent THEN 90 ELSE 0

calculate_external_factors_enhanced(st, agent) ==
    LET has(t) == <<agent, t>> \in DOMAIN st.oracle_data
        performance_bonus ==
            IF has("performance")
            THEN parse_oracle_performance_data(st.oracle_data[<<agent, "performance">>])
                 * PERFORMANCE_WEIGHT * 2
            ELSE 0
        cross_chain_bonus ==
            IF has("cross_chain")
            THEN (parse_oracle_cross_chain_data(st.oracle_data[<<agent, "cross_chain">>])
                  * CROSS_CHAIN_WEIGHT * 3) \div 2
            ELSE 0
        sentiment_bonus ==
            IF has("sentiment")
            THEN parse_oracle_sentiment_data(st.oracle_data[<<agent, "sentiment">>])
                 * SENTIMENT_WEIGHT
            ELSE 0
        external_bonus == performance_bonus + cross_chain_bonus + sentiment_bonus
    IN  \* (external_bonus as f64 * 0.9) as u128: the exact floor up to 20000
        (external_bonus * 9) \div 10

ClampScoreMutant(final_score) == Max(final_score, 0)
\* max(final_score, 0) then min(final_score, 10000)
ClampScore(final_score) == Min(Max(final_score, 0), MAX_KARMA_CAP)

\* sha256 over (address, seconds, score): the hashed triple stands for it
generate_calculation_hash(agent, seconds, score) == <<agent, seconds, score>>

\* KARMA_SCORES.may_load(..).unwrap_or_else(a record of zeros as of this block)
CurrentKarmaOrNew(st, current_time, agent) ==
    IF agent \in DOMAIN st.karma_scores
    THEN st.karma_scores[agent]
    ELSE [KarmaScoreDefault EXCEPT !.last_updated = current_time]

\* the KarmaCalculation record
KarmaCalculation(agent, current_time, previous_score, final_score, average_rating, rating_count, interaction_bonus, time_decay, external_factors) ==
    [agent_address |-> agent,
     current_score |-> final_score,
     previous_score |-> previous_score,
     factors |-> [average_rating |-> average_rating, rating_count |-> rating_count,
                  interaction_frequency |-> interaction_bonus,
                  time_decay |-> time_decay, external_factors |-> external_factors],
     last_updated |-> current_time,
     calculation_hash |-> generate_calculation_hash(agent, current_time, final_score)]

\* base_with_decay, interaction_adjusted, context_adjusted, final_score
CombineScore(base_score, time_decay, interaction_bonus, contextual_modifier, external_factors) ==
    ClampScore(apply_contextual_modifiers(
                   apply_time_decay(base_score, time_decay) + interaction_bonus,
                   contextual_modifier)
               + external_factors)

\* the calculation of an agent that has ratings
RatedCalculation(agent, current_time, previous_score, base, interaction_bonus, contextual_modifier, external_factors, time_decay) ==
    KarmaCalculation(agent, current_time, previous_score,
                     CombineScore(base[1], time_decay, interaction_bonus,
                                  contextual_modifier, external_factors),
                     base[2], base[3], interaction_bonus, time_decay, external_factors)

calculate_karma_score(st, current_time, wall, agent) ==
    LET previous_score == CurrentKarmaOrNew(st, current_time, agent).current_score
        ids == AgentRatingIds(st, agent)
        time_decay == calculate_time_decay(st, current_time, agent)
    IN  IF ids = {}
        THEN KarmaCalculation(agent, current_time, previous_score,
                              apply_time_decay(previous_score, time_decay),
                              0, 0, 0, time_decay, 0)
        ELSE RatedCalculation(agent, current_time, previous_score,
                              calculate_base_score_enhanced(st, ids, wall),
                              calculate_interaction_bonus_enhanced(st, ids, wall),
                              calculate_contextual_modifiers_enhanced(st, ids),
                              calculate_external_factors_enhanced(st, agent),
                              time_decay)

update_karma_score(st, current_time, agent, calculation) ==
    [st EXCEPT
       !.karma_scores =
           Put(@, agent,
               [current_score |-> calculation.current_score,
                previous_score |->
                    CurrentKarmaOrNew(st, current_time, agent).current_score,
                last_updated |-> current_time,
                total_ratings |-> calculation.factors.rating_count,
                average_rating |-> calculation.factors.average_rating,
                interaction_count |->
                    CurrentKarmaOrNew(st, current_time, agent).interaction_count + 1]),
       !.karma_history = Put(@, <<agent, current_time>>, calculation)]

\* contract.rs
update_leaderboard(st, agent, new_karma_score) ==
    LET old_karma == IF agent \in DOMAIN st.karma_scores
                     THEN st.karma_scores[agent].current_score ELSE 0
        removed == IF old_karma > 0 THEN [x \in (DOMAIN st.leaderboard) \ {old_karma} |-> st.leaderboard[x]]
                   ELSE st.leaderboard
    IN  [st EXCEPT !.leaderboard =
            IF new_karma_score > 0 THEN Put(removed, new_karma_score, agent)
            ELSE removed]

validate_rating_scoreMutant(score) == ~(score < 1 \/ score >= 10)
\* karma.rs: TRUE when the score is accepted
validate_rating_score(score) == ~(score < 1 \/ score > 10)

WindowExpiredMutant(time_diff, window_seconds) == time_diff >= window_seconds
\* validate_rating_window: time_diff > window_seconds
WindowExpired(time_diff, window_seconds) == time_diff > window_seconds

\* simulate_interaction_timestamp_from_hash puts the interaction
\* h.suffix % (48 * 60 * 60) seconds before current_time
validate_rating_window_with_hash(st, h, current_time, window_seconds) ==
    IF ~validate_interaction_hash(h)
    THEN Err(Error("InteractionNotFound", "", <<>>), st)
    ELSE IF h.suffix < 0
    THEN Err(Error("InteractionNotFound", "", <<>>), st)
    ELSE LET interaction_time == current_time - (h.suffix % (48 * 60 * 60))
             time_diff == current_time - interaction_time
         IN  IF WindowExpired(time_diff, window_seconds)
             THEN Err(Error("RatingWindowExpired", "", <<>>), st)
             ELSE Ok(st, 0)

(***************************************************************************)
(* contract.rs: the execute messages                                       *)
(***************************************************************************)
DEFAULT_MIN_KARMA_FOR_RATING == 10
DEFAULT_MIN_KARMA_FOR_VOTING == 50
DEFAULT_MIN_KARMA_FOR_PROPOSAL == 100
DEFAULT_RATING_WINDOW == 86400
DEFAULT_MAX_RATINGS_PER_INTERACTION == 1
DEFAULT_RATING_FEE == 2

DefaultKarmaConfig ==
    [min_karma_for_rating |-> DEFAULT_MIN_KARMA_FOR_RATING,
     min_karma_for_voting |-> DEFAULT_MIN_KARMA_FOR_VOTING,
     min_karma_for_proposal |-> DEFAULT_MIN_KARMA_FOR_PROPOSAL,
     rating_window |-> DEFAULT_RATING_WINDOW,
     max_ratings_per_interaction |-> DEFAULT_MAX_RATINGS_PER_INTERACTION,
     rating_fee |-> DEFAULT_RATING_FEE]

\* configurations an UpdateConfig message may carry
NewConfigs ==
    {[DefaultKarmaConfig EXCEPT !.rating_fee = 48],
     [DefaultKarmaConfig EXCEPT !.rating_window = 0]}

\* tests.rs give_initial_karma: a score record written before the first message
give_initial_karma(karma) ==
    [current_score |-> karma, previous_score |-> 0, last_updated |-> T0,
     total_ratings |-> 0, average_rating |-> 0, interaction_count |-> 0]

\* the storage a handler leaves and what the caller of the message gets
\* back: Ok(Response) or Err(ContractError)
Respond(op, r) ==
    /\ Commit(r.st)
    /\ lastResult' = [op |-> op, ok |-> r.ok, err |-> r.err]

\* update_karma_score, then update_leaderboard, with one calculation
SaveCalculation(st, current_time, agent, karma_calculation) ==
    update_leaderboard(update_karma_score(st, current_time, agent, karma_calculation),
                       agent, karma_calculation.current_score)

\* calculate_karma_score, update_karma_score, update_leaderboard
RecalculateAndSave(st, current_time, wall, agent) ==
    SaveCalculation(st, current_time, agent,
                    calculate_karma_score(st, current_time, wall, agent))

\* the rating and its tracker go to the store, under the next counter
StoreRating(st, current_time, block_height, rater, rated_agent, score, h, rating_id) ==
    [st EXCEPT
       !.rating_counter = @ + 1,
       !.ratings =
           Put(@, rating_id,
               [rating |-> [id |-> rating_id, rater_address |-> rater,
                            rated_address |-> rated_agent, score |-> score,
                            interaction_hash |-> h.str, timestamp |-> current_time,
                            block_height |-> block_height],
                processed |-> FALSE,
                fee_paid |-> st.config.karma_config.rating_fee]),
       !.rating_trackers =
           Put(@, <<h.str, rater>>,
               [interaction_hash |-> h.str, rater |-> rater,
                submitted_at |-> current_time])]

\* earn_karma_from_rating, then apply_karma_penalty, for the rated agent
EarnThenPenalise(st, rater, rated_agent, score) ==
    apply_karma_penalty(
        earn_karma_from_rating(st, rated_agent, score,
                               get_agent_karma_score(st, rater)).st,
        rated_agent, score).st

\* the tail of execute_submit_rating, after the fee was charged
StoreRatingAndRecalculate(st, current_time, block_height, wall, rater, rated_agent, score, h) ==
    Ok(RecalculateAndSave(
           EarnThenPenalise(
               StoreRating(st, current_time, block_height, rater, rated_agent, score, h,
                           generate_rating_id(rater, rated_agent, h, current_time)),
               rater, rated_agent, score),
           current_time, wall, rated_agent),
       generate_rating_id(rater, rated_agent, h, current_time))

AlreadyRatedMutant(st, h, rater) == FALSE
\* RATING_TRACKERS.may_load(storage, (hash, rater)).is_some()
AlreadyRated(st, h, rater) == <<h.str, rater>> \in DOMAIN st.rating_trackers

execute_submit_rating(st, current_time, block_height, wall, rater, rated_agent, score, h) ==
    IF ~validate_rating_score(score)
    THEN Err(Error("InvalidRatingScore", "", <<score>>), st)
    ELSE IF ~validate_interaction_hash(h)
    THEN Err(Error("InteractionNotFound", "", <<>>), st)
    ELSE IF rater = rated_agent
    THEN Err(Error("CannotRateSelf", "", <<>>), st)
    ELSE LET req == check_minimum_requirements(st, rater, "rating")
    IN  IF ~req.ok THEN req
    ELSE LET rl == check_rate_limit(st, current_time, rater, "rating")
    IN  IF ~rl.val
        THEN Err(Error("RateLimitExceeded", "rating", <<>>), rl.st)
    ELSE IF AlreadyRated(rl.st, h, rater)
        THEN Err(Error("RatingAlreadySubmitted", h.str, <<>>), rl.st)
    ELSE LET win == validate_rating_window_with_hash(
                        rl.st, h, current_time, rl.st.config.karma_config.rating_window)
    IN  IF ~win.ok THEN win
    ELSE LET paid == spend_karma(rl.st, rater, rl.st.config.karma_config.rating_fee)
    IN  IF ~paid.ok THEN paid
    ELSE StoreRatingAndRecalculate(paid.st, current_time, block_height, wall, rater,
                                   rated_agent, score, h)

\* one more message, in the current block
NextMessage ==
    /\ tx_count < MaxTx
    /\ tx_count' = tx_count + 1
    /\ UNCHANGED <<now, height>>

NoCall == [op |-> "none", ok |-> TRUE, err |-> NoError]

SubmitRating(sender, rated_agent, score, h) ==
    /\ NextMessage
    /\ rating_counter < MaxRatings
    /\ \E wall \in WallClocks :
         Respond("submit_rating",
                 execute_submit_rating(Storage, now, height, wall, sender,
                                        rated_agent, score, h))

RecalculatedOk(st, current_time, agent, karma_calculation) ==
    Ok(SaveCalculation(st, current_time, agent, karma_calculation),
       karma_calculation.current_score)

execute_recalculate_karma(st, current_time, wall, agent) ==
    RecalculatedOk(st, current_time, agent,
                   calculate_karma_score(st, current_time, wall, agent))

RecalculateKarma(agent) ==
    /\ NextMessage
    /\ \E wall \in WallClocks :
         Respond("recalculate_karma",
                 execute_recalculate_karma(Storage, now, wall, agent))

\* an OracleData of the message: what the handler reads of it
OracleEntry(data_type, seconds, len, verified) ==
    [data_type |-> data_type, seconds |-> seconds, len |-> len, verified |-> verified]
\* "high_performance_metrics", verified, stamped with the first block
VerifiedEntry == OracleEntry("performance", T0, 24, TRUE)
\* "suspicious_data", not verified
UnverifiedEntry == OracleEntry("sentiment", T0, 15, FALSE)
\* the batches a ProcessOracleData message may carry
OracleBatches ==
    {<<VerifiedEntry>>, <<UnverifiedEntry>>, <<VerifiedEntry, UnverifiedEntry>>,
     <<UnverifiedEntry, VerifiedEntry>>}

RECURSIVE StoreOracleEntries(_, _, _)
\* the loop over the batch: it returns at the first entry that is not
\* verified, after the entries before it were saved
StoreOracleEntries(st, agent, batch) ==
    IF batch = <<>> THEN Ok(st, 0)
    ELSE IF ~Head(batch).verified
    THEN Err(Error("OracleDataVerificationFailed", "", <<>>), st)
    ELSE StoreOracleEntries(
             [st EXCEPT !.oracle_data =
                 Put(@, <<agent, Head(batch).data_type>>,
                     [seconds |-> Head(batch).seconds, len |-> Head(batch).len])],
             agent, Tail(batch))

IsAdminMutant(st, sender) == TRUE
\* info.sender != config.admin, negated
IsAdmin(st, sender) == sender = st.config.admin

execute_process_oracle_data(st, current_time, wall, sender, agent, batch) ==
    IF ~IsAdmin(st, sender)
    THEN Err(Error("AdminRequired", "", <<>>), st)
    ELSE IF ~StoreOracleEntries(st, agent, batch).ok
    THEN StoreOracleEntries(st, agent, batch)
    ELSE RecalculatedOk(StoreOracleEntries(st, agent, batch).st, current_time, agent,
                        calculate_karma_score(StoreOracleEntries(st, agent, batch).st,
                                              current_time, wall, agent))

ProcessOracleData(sender, agent, batch) ==
    /\ NextMessage
    /\ \E wall \in WallClocks :
         Respond("process_oracle_data",
                 execute_process_oracle_data(Storage, now, wall, sender, agent, batch))

execute_update_config(st, sender, new_config) ==
    IF ~IsAdmin(st, sender)
    THEN Err(Error("AdminRequired", "", <<>>), st)
    ELSE IF new_config.rating_window = 0
    THEN Err(Error("InvalidKarmaConfig", "rating_window", <<>>), st)
    ELSE IF new_config.max_ratings_per_interaction = 0
    THEN Err(Error("InvalidKarmaConfig", "max_ratings", <<>>), st)
    ELSE Ok([st EXCEPT !.config.karma_config = new_config], 0)

UpdateConfig(sender, new_config) ==
    /\ NextMessage
    /\ Respond("update_config",
               execute_update_config(Storage, sender, new_config))

\* a later block
Tick(d) ==
    /\ now + d <= T0 + MaxElapsed
    /\ now' = now + d
    /\ height' = height + 1
    /\ lastResult' = NoCall
    /\ UNCHANGED <<config, karma_scores, karma_balance, ratings, rating_trackers,
                   rating_counter, rate_limit_trackers, dispute_cases,
                   compliance_violations, karma_penalties, karma_history,
                   leaderboard, oracle_data, tx_count>>
(***************************************************************************)
(* compliance.rs: penalties and the dispute manager                        *)
(***************************************************************************)
SaturatingSubMutant(a, b) == a - b
\* Uint128::saturating_sub
SaturatingSub(a, b) == IF a >= b THEN a - b ELSE 0

apply_abuse_penalty(st, current_time, agent, violation) ==
    LET karma_score == LoadKarmaOrDefault(st, agent)
        penalty_amount == violation.penalty_applied
        updated == [karma_score EXCEPT
                       !.current_score = SaturatingSub(@, penalty_amount),
                       !.last_updated = current_time]
        st1 == [st EXCEPT !.karma_scores = Put(@, agent, updated)]
        penalty_key == agent \o ":" \o ToString(current_time)
    IN  Ok([st1 EXCEPT !.karma_penalties = Put(@, penalty_key, penalty_amount)], 0)

\* the challenger can cover the stake
CanStakeMutant(current_score, stake_amount) == current_score > stake_amount
CanStake(current_score, stake_amount) == ~(current_score < stake_amount)

create_dispute(st, current_time, challenger, violation_id, stake_amount, evidence) ==
    LET challenger_karma == LoadKarmaOrDefault(st, challenger)
    IN  IF ~CanStake(challenger_karma.current_score, stake_amount)
        THEN Err(Error("InsufficientKarma", "",
                       <<stake_amount, challenger_karma.current_score>>), st)
        ELSE LET case_id == "dispute_" \o violation_id \o "_" \o ToString(current_time)
                 dispute_case ==
                     [case_id |-> case_id, violation_id |-> violation_id,
                      challenger |-> challenger, stake_amount |-> stake_amount,
                      evidence |-> evidence, status |-> "Pending",
                      created_at |-> current_time, resolved_at |-> <<>>,
                      resolution |-> <<>>]
                 st1 == [st EXCEPT !.dispute_cases = Put(@, case_id, dispute_case)]
                 updated_karma == [challenger_karma EXCEPT
                                      !.current_score = SaturatingSub(@, stake_amount)]
             IN  Ok([st1 EXCEPT !.karma_scores = Put(@, challenger, updated_karma)],
                    case_id)

StakeReturnedMutant(resolution, stake_amount) ==
    IF resolution = "ViolationConfirmed" THEN 0 ELSE stake_amount
\* what resolve_dispute adds to the challenger's score
StakeReturned(resolution, stake_amount) ==
    CASE resolution = "ViolationOverturned" -> stake_amount
      [] resolution = "PartialOverturned" -> stake_amount \div 2
      [] OTHER -> 0

IsPendingMutant(dispute_case) == TRUE
IsPending(dispute_case) == dispute_case.status = "Pending"

resolve_disputeMutant(st, current_time, case_id, resolution) ==
    IF case_id \notin DOMAIN st.dispute_cases
    THEN Err(Error("Std", "not found", <<>>), st)
    ELSE IF ~IsPending(st.dispute_cases[case_id])
    THEN Err(Error("DisputeAlreadyResolved", case_id, <<>>), st)
    ELSE Ok([st EXCEPT
                !.dispute_cases[case_id] =
                    [@ EXCEPT !.status = "Resolved", !.resolved_at = <<current_time>>,
                              !.resolution = <<resolution>>],
                !.karma_scores =
                    [agent \in DOMAIN @ |->
                        [@[agent] EXCEPT !.current_score =
                            @ + (IF agent = st.dispute_cases[case_id].challenger
                                 THEN StakeReturned(resolution,
                                          st.dispute_cases[case_id].stake_amount)
                                 ELSE 0)
                              + SumFn([id \in {v \in DOMAIN st.compliance_violations :
                                          /\ v = st.dispute_cases[case_id].violation_id
                                          /\ resolution = "ViolationOverturned"
                                          /\ st.compliance_violations[v].agent_address
                                                 = agent}
                                      |-> st.compliance_violations[id].penalty_applied])]]],
            0)
resolve_dispute(st, current_time, case_id, resolution) ==
    IF case_id \notin DOMAIN st.dispute_cases
    THEN Err(Error("Std", "not found", <<>>), st)
    ELSE LET loaded == st.dispute_cases[case_id]
    IN  IF ~IsPending(loaded)
        THEN Err(Error("DisputeAlreadyResolved", case_id, <<>>), st)
    ELSE LET dispute_case == [loaded EXCEPT !.status = "Resolved",
                                            !.resolved_at = <<current_time>>,
                                            !.resolution = <<resolution>>]
             challenger == dispute_case.challenger
    IN  IF resolution = "ViolationConfirmed"
        THEN Ok([st EXCEPT !.dispute_cases = Put(@, case_id, dispute_case)], 0)
        ELSE IF challenger \notin DOMAIN st.karma_scores
        THEN Err(Error("Std", "not found", <<>>), st)
        ELSE LET challenger_karma ==
                     [st.karma_scores[challenger] EXCEPT !.current_score =
                          @ + StakeReturned(resolution, dispute_case.stake_amount)]
                 st1 == [st EXCEPT !.karma_scores = Put(@, challenger, challenger_karma)]
             IN  Ok([st1 EXCEPT !.dispute_cases = Put(@, case_id, dispute_case)], 0)
\* severities an ApplyCompliancePenalty message may carry (u8)
Severities == {0, 10}
ViolationTypes == {"spam_rating"}
\* resolution strings a ResolveDispute message may carry
Resolutions == {"confirmed", "overturned", "partial", "withdrawn"}

ViolationEnum(violation_type) ==
    CASE violation_type = "spam_rating" -> "SpamRating"
      [] violation_type = "rating_manipulation" -> "RatingManipulation"
      [] violation_type = "bot_behavior" -> "BotBehavior"
      [] violation_type = "rate_limit_exceeded" -> "RateLimitExceeded"
      [] OTHER -> "SuspiciousPattern"

execute_apply_compliance_penalty(st, current_time, sender, agent, violation_type, severity, evidence) ==
    IF ~IsAdmin(st, sender)
    THEN Err(Error("AdminRequired", "", <<>>), st)
    ELSE IF severity = 0 \/ severity > 10
    THEN Err(Error("ComplianceViolation", "Severity must be between 1 and 10", <<>>), st)
    ELSE LET penalty_amount == KARMA_PENALTY_MULTIPLIER * severity
             violation_id == "manual:" \o agent \o ":" \o violation_type \o ":"
                             \o ToString(current_time)
             violation == [agent_address |-> agent,
                           violation_type |-> ViolationEnum(violation_type),
                           severity |-> severity, timestamp |-> current_time,
                           evidence |-> evidence, penalty_applied |-> penalty_amount,
                           disputed |-> FALSE]
             st1 == [st EXCEPT !.compliance_violations =
                                   Put(@, violation_id, violation)]
         IN  apply_abuse_penalty(st1, current_time, agent, violation)

ApplyCompliancePenalty(sender, agent, violation_type, severity) ==
    /\ NextMessage
    /\ Respond("apply_compliance_penalty",
               execute_apply_compliance_penalty(Storage, now, sender, agent,
                                                 violation_type, severity, "evidence"))

execute_create_dispute(st, current_time, sender, violation_id, stake_amount, evidence) ==
    create_dispute(st, current_time, sender, violation_id, stake_amount, evidence)

\* violation ids a CreateDispute message may name
ViolationIds == {"v1"} \cup DOMAIN compliance_violations

CreateDispute(sender, violation_id, stake_amount) ==
    /\ NextMessage
    /\ Respond("create_dispute",
               execute_create_dispute(Storage, now, sender, violation_id,
                                       stake_amount, "evidence"))

execute_resolve_dispute(st, current_time, sender, case_id, resolution) ==
    IF ~IsAdmin(st, sender)
    THEN Err(Error("AdminRequired", "", <<>>), st)
    ELSE IF resolution \notin {"confirmed", "overturned", "partial"}
    THEN Err(Error("ComplianceViolation", "Invalid resolution type", <<>>), st)
    ELSE LET dispute_resolution ==
                 CASE resolution = "confirmed" -> "ViolationConfirmed"
                   [] resolution = "overturned" -> "ViolationOverturned"
                   [] resolution = "partial" -> "PartialOverturned"
         IN  resolve_dispute(st, current_time, case_id, dispute_resolution)

\* case ids a ResolveDispute message may name
CaseIds == {"dispute_none"} \cup DOMAIN dispute_cases

ResolveDispute(sender, case_id, resolution) ==
    /\ NextMessage
    /\ Respond("resolve_dispute",
               execute_resolve_dispute(Storage, now, sender, case_id, resolution))

(***************************************************************************)
(* The contract after instantiate, with the principals' first scores       *)
(***************************************************************************)
InitConfig ==
    [admin |-> "admin", agent_registry |-> "admin", interaction_logger |-> "admin",
     karma_config |-> DefaultKarmaConfig]

Init ==
    /\ now = T0
    /\ height = 1
    /\ tx_count = 0
    /\ config = InitConfig
    /\ rating_counter = 0
    /\ karma_scores = [agent \in Agents |-> give_initial_karma(SeedScore(agent))]
    /\ karma_balance = EmptyMap
    /\ ratings = EmptyMap
    /\ rating_trackers = EmptyMap
    /\ rate_limit_trackers = EmptyMap
    /\ dispute_cases = EmptyMap
    /\ compliance_violations = EmptyMap
    /\ karma_penalties = EmptyMap
    /\ karma_history = EmptyMap
    /\ leaderboard = EmptyMap
    /\ oracle_data = EmptyMap
    /\ lastResult = NoCall

Next ==
    \/ \E sender \in Agents, rated_agent \in Agents, score \in RatingScores,
          h \in Hashes : SubmitRating(sender, rated_agent, score, h)
    \/ \E agent \in Agents : RecalculateKarma(agent)
    \/ \E sender \in Principals, new_config \in NewConfigs :
          UpdateConfig(sender, new_config)
    \/ \E sender \in Principals, agent \in Agents, batch \in OracleBatches :
          ProcessOracleData(sender, agent, batch)
    \/ \E sender \in Principals, agent \in Agents, violation_type \in ViolationTypes,
          severity \in Severities :
          ApplyCompliancePenalty(sender, agent, violation_type, severity)
    \/ \E sender \in Agents, violation_id \in ViolationIds, stake_amount \in Stakes :
          CreateDispute(sender, violation_id, stake_amount)
    \/ \E sender \in Principals, case_id \in CaseIds, resolution \in Resolutions :
          ResolveDispute(sender, case_id, resolution)
    \/ \E d \in {RATING_PATTERN_WINDOW + 1} : Tick(d)

Spec == Init /\ [][Next]_vars
(***************************************************************************)
(* Oracle data, penalties and disputes, with ratings of 10; a batch may    *)
(* carry a verified entry of a data type the engine does not read          *)
(***************************************************************************)
NextAdmin ==
    \/ \E sender \in Agents, rated_agent \in Agents :
          SubmitRating(sender, rated_agent, 10, HashFresh)
    \/ \E sender \in Principals, agent \in Agents,
          batch \in {<<VerifiedEntry>>, <<OracleEntry("weather", T0, 7, TRUE)>>,
                     <<OracleEntry("weather", T0, 7, TRUE), VerifiedEntry>>} :
          ProcessOracleData(sender, agent, batch)
    \/ \E sender \in Principals, agent \in Agents, violation_type \in ViolationTypes,
          severity \in Severities :
          ApplyCompliancePenalty(sender, agent, violation_type, severity)
    \/ \E sender \in Agents, violation_id \in ViolationIds, stake_amount \in Stakes :
          CreateDispute(sender, violation_id, stake_amount)
    \/ \E sender \in Principals, case_id \in CaseIds, resolution \in Resolutions :
          ResolveDispute(sender, case_id, resolution)

SpecAdmin == Init /\ [][NextAdmin]_vars

(***************************************************************************)
(* Ratings alone: SubmitRating under the fees and windows of UpdateConfig  *)
(***************************************************************************)
NextRatings ==
    \/ \E sender \in Agents, rated_agent \in Agents, score \in RatingScores,
          h \in Hashes : SubmitRating(sender, rated_agent, score, h)
    \/ \E sender \in Principals, new_config \in NewConfigs :
          UpdateConfig(sender, new_config)

SpecRatings == Init /\ [][NextRatings]_vars

(***************************************************************************)
(* The ledger alone: spend_karma and award_karma called on their own       *)
(***************************************************************************)
SpendKarma(agent, amount) ==
    /\ NextMessage
    /\ Respond("spend_karma",
               spend_karma(Storage, agent, amount))

AwardKarma(agent, amount) ==
    /\ NextMessage
    /\ Respond("award_karma",
               award_karma(Storage, agent, amount))

NextLedger ==
    \/ \E agent \in Rated, amount \in Amounts : SpendKarma(agent, amount)
    \/ \E agent \in Rated, amount \in Amounts : AwardKarma(agent, amount)

SpecLedger == Init /\ [][NextLedger]_vars

(***************************************************************************)
(* The rate limiter alone: check_rate_limit called on its own, as the      *)
(* tests of compliance.rs call it, for one principal whose score is drawn  *)
(* from the tiers of the karma multiplier                                  *)
(***************************************************************************)
\* calls of check_rate_limit in one behaviour
MaxCalls == 21
LimiterAgents == {"a2"}
ActionTypes == {"rating", "interaction", "vote"}

InitLimiter ==
    /\ now = T0
    /\ height = 1
    /\ tx_count = 0
    /\ config = InitConfig
    \* scores on both sides of the thresholds of the karma multiplier
    /\ \E score \in {0, 100, 101, 501, 1001} :
          karma_scores = [agent \in LimiterAgents |-> give_initial_karma(score)]
    /\ karma_balance = EmptyMap
    /\ ratings = EmptyMap
    /\ rating_trackers = EmptyMap
    /\ rating_counter = 0
    /\ rate_limit_trackers = EmptyMap
    /\ dispute_cases = EmptyMap
    /\ compliance_violations = EmptyMap
    /\ karma_penalties = EmptyMap
    /\ karma_history = EmptyMap
    /\ leaderboard = EmptyMap
    /\ oracle_data = EmptyMap
    /\ lastResult = NoCall

\* the call of check_rate_limit and its answer Ok(true) or Ok(false)
CheckRateLimit(agent, action_type) ==
    /\ tx_count < MaxCalls
    /\ tx_count' = tx_count + 1
    /\ UNCHANGED <<now, height>>
    /\ Commit(check_rate_limit(Storage, now, agent, action_type).st)
    /\ lastResult' =
           [op |-> "check_rate_limit", agent |-> agent, action_type |-> action_type,
            ok |-> check_rate_limit(Storage, now, agent, action_type).ok,
            err |-> check_rate_limit(Storage, now, agent, action_type).err,
            allowed |-> check_rate_limit(Storage, now, agent, action_type).val]

NextLimiter ==
    \/ \E agent \in LimiterAgents, action_type \in ActionTypes :
          CheckRateLimit(agent, action_type)
    \* two half windows: 3600 s and 3601 s can both elapse
    \/ \E d \in {1800, 1801} : Tick(d)

SpecLimiter == InitLimiter /\ [][NextLimiter]_vars

(***************************************************************************)
(* Inactivity: blocks days apart, a principal whose first score is drawn   *)
(* from a set, a rating for it, and recalculations                         *)
(***************************************************************************)
\* seconds between the first block and the last
MaxAge == 7776001
\* the height of the last block
MaxHeight == 3

InitDecay ==
    /\ now = T0
    /\ height = 1
    /\ tx_count = 0
    /\ config = InitConfig
    \* first scores of the principal that is left inactive
    /\ \E score \in {0, 90, 100, 10000} :
          karma_scores = [agent \in Agents |->
                             give_initial_karma(IF agent = "a2" THEN score
                                                ELSE SeedScore(agent))]
    /\ karma_balance = EmptyMap
    /\ ratings = EmptyMap
    /\ rating_trackers = EmptyMap
    /\ rating_counter = 0
    /\ rate_limit_trackers = EmptyMap
    /\ dispute_cases = EmptyMap
    /\ compliance_violations = EmptyMap
    /\ karma_penalties = EmptyMap
    /\ karma_history = EmptyMap
    /\ leaderboard = EmptyMap
    /\ oracle_data = EmptyMap
    /\ lastResult = NoCall

\* a later block, t seconds after the first
Age(t) ==
    /\ t <= MaxAge
    /\ height < MaxHeight
    /\ T0 + t > now
    /\ now' = T0 + t
    /\ height' = height + 1
    /\ lastResult' = NoCall
    /\ UNCHANGED <<config, karma_scores, karma_balance, ratings, rating_trackers,
                   rating_counter, rate_limit_trackers, dispute_cases,
                   compliance_violations, karma_penalties, karma_history,
                   leaderboard, oracle_data, tx_count>>

NextDecay ==
    \/ SubmitRating("a1", "a2", 10, HashFresh)
    \/ \E agent \in {"a2", "admin"} : RecalculateKarma(agent)
    \* block times after the first block: 7, 30, 60 and 90 days later, and one
    \* second more than 7, 30 and 90 days later
    \/ \E t \in {604800, 604801, 2592000, 2592001, 5184000, 7776000, 7776001} : Age(t)

SpecDecay == InitDecay /\ [][NextDecay]_vars

(***************************************************************************)
(* compliance.rs: spam detection over the ratings a principal gave, on     *)
(* stores that hold up to MaxGiven ratings of one rater in the first block *)
(***************************************************************************)
\* the ratings the agent gave since window_start = current_time - 3600
RecentRatingsBy(st, current_time, agent) ==
    {id \in DOMAIN st.ratings :
        /\ st.ratings[id].rating.rater_address = agent
        /\ st.ratings[id].rating.timestamp >= current_time - RATING_PATTERN_WINDOW}

\* calculate_variance(scores) < MIN_RATING_VARIANCE: the population standard
\* deviation is below 0.5 iff 4 * (n * sum of squares - square of the sum) < n * n;
\* a sample of fewer than two scores has the default 1.0
VarianceBelowMinimum(scores) ==
    /\ Cardinality(DOMAIN scores) >= 2
    /\ 4 * (Cardinality(DOMAIN scores)
              * SumFn([id \in DOMAIN scores |-> scores[id] * scores[id]])
            - SumFn(scores) * SumFn(scores))
         < Cardinality(DOMAIN scores) * Cardinality(DOMAIN scores)

\* target_counts.values().max().unwrap_or(&0)
MaxTargetCount(st, ids) ==
    IF ids = {} THEN 0
    ELSE LET count(target) ==
                 Cardinality({id \in ids : st.ratings[id].rating.rated_address = target})
             targets == {st.ratings[id].rating.rated_address : id \in ids}
         IN  CHOOSE c \in {count(target) : target \in targets} :
                 \A target \in targets : count(target) <= c

\* max_target_count / rating_count > SUSPICIOUS_INTERACTION_RATIO (0.8);
\* 0 / 0 is NaN, which compares false
RatioAboveSuspicious(max_target_count, rating_count) ==
    rating_count > 0 /\ 5 * max_target_count > 4 * rating_count

DetectionResultMutant(violation_type, factor, tenths) ==
    [is_suspicious |-> tenths > 0,
     violation_type |-> IF tenths > 0 THEN <<violation_type>> ELSE <<>>,
     confidence_score |-> tenths,
     recommended_penalty |->
         IF tenths > 0 THEN KARMA_PENALTY_MULTIPLIER * (10 * tenths) ELSE 0]
\* the AbuseDetectionResult of a detector whose checks added tenths tenths to
\* confidence_score; recommended_penalty is KARMA_PENALTY_MULTIPLIER * factor *
\* (confidence_score * 100.0) as u128, and the cast gives 10 * tenths for
\* every sum of the increments 0.3, 0.4, 0.5 and 0.6 a detector can reach
DetectionResult(violation_type, factor, tenths) ==
    [is_suspicious |-> tenths > 0,
     violation_type |-> IF tenths > 0 THEN <<violation_type>> ELSE <<>>,
     confidence_score |-> tenths,
     recommended_penalty |->
         IF tenths > 0 THEN KARMA_PENALTY_MULTIPLIER * factor * (10 * tenths) ELSE 0]

\* the three checks on the recent ratings ids, rating_count of them
SpamChecks(st, ids, rating_count) ==
    DetectionResult("SpamRating", 1,
        (IF rating_count > SPAM_RATING_THRESHOLD THEN 4 ELSE 0)
        + (IF rating_count > 5 /\ VarianceBelowMinimum(RatingScoresOf(st, ids))
           THEN 3 ELSE 0)
        + (IF RatioAboveSuspicious(MaxTargetCount(st, ids), rating_count)
              /\ rating_count > 3
           THEN 3 ELSE 0))

detect_spam_ratings(st, current_time, agent) ==
    SpamChecks(st, RecentRatingsBy(st, current_time, agent),
               Cardinality(RecentRatingsBy(st, current_time, agent)))

\* the two checks on the stored tracker; average_interval is the u64 quotient
\* time_since_start / count
BotChecks(tracker, time_since_start) ==
    DetectionResult("BotBehavior", 2,
        (IF tracker.count > BOT_BEHAVIOR_THRESHOLD THEN 5 ELSE 0)
        + (IF /\ time_since_start > 0
              /\ time_since_start \div tracker.count < 10
              /\ tracker.count > 20
           THEN 3 ELSE 0))

detect_bot_behavior(st, current_time, agent) ==
    IF agent \notin DOMAIN st.rate_limit_trackers
    THEN DetectionResult("BotBehavior", 2, 0)
    ELSE BotChecks(st.rate_limit_trackers[agent],
                   current_time - st.rate_limit_trackers[agent].window_start)

\* the pairs of a given and a received rating whose target is the rater of
\* the received one and whose timestamps are less than 3600 s apart
ReciprocalCount(st, given, received) ==
    Cardinality({pair \in given \X received :
        /\ st.ratings[pair[2]].rating.rater_address
               = st.ratings[pair[1]].rating.rated_address
        /\ st.ratings[pair[1]].rating.timestamp - st.ratings[pair[2]].rating.timestamp
               < 3600
        /\ st.ratings[pair[2]].rating.timestamp - st.ratings[pair[1]].rating.timestamp
               < 3600})

ManipulationChecksMutant(reciprocal_count, given_len, low_ratings_given) ==
    DetectionResult("RatingManipulation", 3,
        (IF reciprocal_count > 3 /\ 10 * reciprocal_count > 3 * given_len
         THEN 4 ELSE 0)
        + (IF low_ratings_given > 5 /\ 10 * low_ratings_given > 7 * given_len
           THEN 3 ELSE 0))
\* the two checks; reciprocal_ratio > 0.3 and low_rating_ratio > 0.7 are
\* comparisons of quotients of counts, exact in integers
ManipulationChecks(reciprocal_count, given_len, low_ratings_given) ==
    DetectionResult("RatingManipulation", 3,
        (IF /\ reciprocal_count > 3
            /\ given_len > 5
            /\ 10 * reciprocal_count > 3 * given_len
         THEN 4 ELSE 0)
        + (IF /\ low_ratings_given > 5
              /\ given_len > 0
              /\ 10 * low_ratings_given > 7 * given_len
           THEN 3 ELSE 0))

\* given and received ratings since window_start = current_time - 24 * 3600
detect_rating_manipulation(st, current_time, agent) ==
    LET given == {id \in DOMAIN st.ratings :
                     /\ st.ratings[id].rating.rater_address = agent
                     /\ st.ratings[id].rating.timestamp
                            >= current_time - RATING_PATTERN_WINDOW * 24}
        received == {id \in DOMAIN st.ratings :
                        /\ st.ratings[id].rating.rated_address = agent
                        /\ st.ratings[id].rating.timestamp
                               >= current_time - RATING_PATTERN_WINDOW * 24}
    IN  ManipulationChecks(ReciprocalCount(st, given, received), Cardinality(given),
                           Cardinality({id \in given : st.ratings[id].rating.score <= 3}))

\* the results of the three detectors, in the order they are pushed
run_abuse_detection(st, current_time, agent) ==
    <<detect_spam_ratings(st, current_time, agent),
      detect_bot_behavior(st, current_time, agent),
      detect_rating_manipulation(st, current_time, agent)>>

\* the body of the loop over the results: the violation record and the
\* penalty of a suspicious result; severity is (confidence_score * 10.0) as u8
ProcessDetection(st, current_time, agent, result) ==
    IF ~result.is_suspicious THEN st
    ELSE apply_abuse_penalty(
             [st EXCEPT !.compliance_violations =
                 Put(@, agent \o ":" \o result.violation_type[1] \o ":"
                        \o ToString(current_time),
                     [agent_address |-> agent,
                      violation_type |-> result.violation_type[1],
                      severity |-> result.confidence_score,
                      timestamp |-> current_time,
                      evidence |-> "detected",
                      penalty_applied |-> result.recommended_penalty,
                      disputed |-> FALSE])],
             current_time, agent,
             [penalty_applied |-> result.recommended_penalty]).st

\* the results are computed on the storage the message finds, then processed
\* in order
execute_run_abuse_detection(st, current_time, agent) ==
    Ok(ProcessDetection(
           ProcessDetection(
               ProcessDetection(st, current_time, agent,
                                run_abuse_detection(st, current_time, agent)[1]),
               current_time, agent, run_abuse_detection(st, current_time, agent)[2]),
           current_time, agent, run_abuse_detection(st, current_time, agent)[3]),
       0)

RunAbuseDetection(agent) ==
    /\ NextMessage
    /\ Respond("run_abuse_detection", execute_run_abuse_detection(Storage, now, agent))

\* ratings one rater gave in the first block
MaxGiven == 14

\* a rating stored at a block time under the hash of a name
StoreAt(st, time, block_height, rater, target, score, name) ==
    StoreRating(st, time, block_height, rater, target, score,
                Hash(name, 64, TRUE, TRUE, 0),
                generate_rating_id(rater, target, Hash(name, 64, TRUE, TRUE, 0), time))

RECURSIVE GivenStore(_, _, _, _, _, _)
\* the store after the first i of the n ratings "a1" gave in the first block:
\* 6 for the first highs ratings, 3 for the last lows and 5 for the others;
\* "a2" is rated by the first same ratings, a target of its own by each of
\* the others
GivenStore(st, i, n, highs, same, lows) ==
    IF i = 0 THEN st
    ELSE StoreAt(GivenStore(st, i - 1, n, highs, same, lows), T0, 1, "a1",
                 (IF i <= same THEN "a2" ELSE "t" \o ToString(i)),
                 (IF i <= highs THEN 6 ELSE IF i > n - lows THEN 3 ELSE 5),
                 "g" \o ToString(i))

RECURSIVE ReceivedStore(_, _, _)
\* the store after "a2" gave "a1" its first i ratings, in a second block
ReceivedStore(st, i, time) ==
    IF i = 0 THEN st
    ELSE StoreAt(ReceivedStore(st, i - 1, time), time, 2, "a2", "a1", 5,
                 "r" \o ToString(i))

\* the storage of Init with other first scores
SeededStorage(karma_of_a1, karma_of_a2) ==
    [config |-> InitConfig,
     karma_scores |-> [agent \in Agents |->
                          give_initial_karma(IF agent = "a1" THEN karma_of_a1
                                             ELSE karma_of_a2)],
     karma_balance |-> EmptyMap, ratings |-> EmptyMap, rating_trackers |-> EmptyMap,
     rating_counter |-> 0, rate_limit_trackers |-> EmptyMap,
     dispute_cases |-> EmptyMap, compliance_violations |-> EmptyMap,
     karma_penalties |-> EmptyMap, karma_history |-> EmptyMap,
     leaderboard |-> EmptyMap, oracle_data |-> EmptyMap]

\* the state in which "a1" gave n ratings at T0, "a2" gave back received
\* ratings delay seconds later, and the tracker of "a1" holds count accepted
\* "interaction" actions since T0
AbuseState(n, highs, same, lows, received, delay, count) ==
    /\ now = T0 + delay
    /\ height = IF received > 0 THEN 2 ELSE 1
    /\ ratings = ReceivedStore(GivenStore(SeededStorage(1500, 50), n, n, highs, same, lows),
                               received, T0 + delay).ratings
    /\ rating_trackers =
           ReceivedStore(GivenStore(SeededStorage(1500, 50), n, n, highs, same, lows),
                         received, T0 + delay).rating_trackers
    /\ rating_counter = n + received
    /\ rate_limit_trackers =
           IF count = 0 THEN EmptyMap
           ELSE Put(EmptyMap, "a1",
                    [agent_address |-> "a1", action_type |-> "interaction",
                     count |-> count, window_start |-> T0, last_action |-> T0])

InitAbuse ==
    /\ tx_count = 0
    /\ config = InitConfig
    /\ karma_scores = [agent \in Agents |->
                          give_initial_karma(IF agent = "a1" THEN 1500 ELSE 50)]
    /\ karma_balance = EmptyMap
    /\ dispute_cases = EmptyMap
    /\ compliance_violations = EmptyMap
    /\ karma_penalties = EmptyMap
    /\ karma_history = EmptyMap
    /\ leaderboard = EmptyMap
    /\ oracle_data = EmptyMap
    /\ lastResult = NoCall
    /\ \E n \in 0..MaxGiven :
        \* scores 5 and 6 in the hour: the frequency and the variance check
        \/ \E highs \in {0, 3} : highs <= n /\ AbuseState(n, highs, 0, 0, 0, 0, 0)
        \* all ratings or all but one to one target: the ratio check
        \/ \E same \in {n - 1, n} : same >= 2 /\ AbuseState(n, 0, same, 0, 0, 0, 0)
        \* scores of 3: the low ratings check
        \/ \E lows \in 5..7 : lows <= n /\ AbuseState(n, 0, 0, lows, 0, 0, 0)
        \* ratings given back within the hour and one hour later
        \/ /\ n >= 5
           /\ \E same \in 3..4, delay \in {3599, 3600} :
                 AbuseState(n, 0, same, 0, 1, delay, 0)
        \/ n >= 5 /\ AbuseState(n, 0, 2, 0, 2, 3599, 0)
        \* a tracker on both sides of 20 and of BOT_BEHAVIOR_THRESHOLD
        \/ /\ n = 0
           /\ \E count \in {1, 20, 21, 50, 51} : AbuseState(0, 0, 0, 0, 0, 0, count)

NextAbuse ==
    \/ \E agent \in Agents : RunAbuseDetection(agent)
    \/ \E sender \in Principals, violation_type \in ViolationTypes,
          severity \in Severities :
          ApplyCompliancePenalty(sender, "a1", violation_type, severity)
    \* block times at the bounds of the detectors: an average interval of
    \* 10 s at 21 actions, one second after the hour and after 24 hours
    \/ \E t \in {210, 3601, 86401} : Age(t)

SpecAbuse == InitAbuse /\ [][NextAbuse]_vars
(***************************************************************************)
(* A principal that was rated before: "a1" rated "a2" in earlier blocks    *)
(***************************************************************************)
\* ratings "a2" received before the first message of the run
MaxPrior == 12

RECURSIVE RatedBefore(_, _, _)
\* the storage after i SubmitRating messages of "a1" for "a2", one a block,
\* the blocks RATING_PATTERN_WINDOW + 1 seconds apart
RatedBefore(st, i, score) ==
    IF i = 0 THEN st
    ELSE CHOOSE after \in
             {execute_submit_rating(before,
                                    T0 + (i - 1) * (RATING_PATTERN_WINDOW + 1), i, 0,
                                    "a1", "a2", score,
                                    Hash("p" \o ToString(i), 64, TRUE, TRUE, 0)).st :
                  before \in {RatedBefore(st, i - 1, score)}} : TRUE

\* the variables hold a storage
Holds(st) ==
    /\ config = st.config
    /\ karma_scores = st.karma_scores
    /\ karma_balance = st.karma_balance
    /\ ratings = st.ratings
    /\ rating_trackers = st.rating_trackers
    /\ rating_counter = st.rating_counter
    /\ rate_limit_trackers = st.rate_limit_trackers
    /\ dispute_cases = st.dispute_cases
    /\ compliance_violations = st.compliance_violations
    /\ karma_penalties = st.karma_penalties
    /\ karma_history = st.karma_history
    /\ leaderboard = st.leaderboard
    /\ oracle_data = st.oracle_data

InitRated ==
    /\ tx_count = 0
    /\ lastResult = NoCall
    /\ \E i \in {0, MaxPrior - 1, MaxPrior}, score \in {1, 10}, karma_of_a1 \in {99, 1500} :
          /\ now = T0 + i * (RATING_PATTERN_WINDOW + 1)
          /\ height = i + 1
          /\ Holds(RatedBefore(SeededStorage(karma_of_a1, 50), i, score))
          /\ rating_counter = i

NextRated ==
    \/ \E sender \in Agents, rated_agent \in Agents, score \in RatingScores :
          SubmitRating(sender, rated_agent, score, HashFresh)
    \/ \E agent \in Agents : RecalculateKarma(agent)

SpecRated == InitRated /\ [][NextRated]_vars

(***************************************************************************)
(* A busy hour: "a1" sent up to MaxHour SubmitRating messages for "a2" in  *)
(* the first block, from each karma tier of the rate limiter               *)
(***************************************************************************)
\* SubmitRating messages of one rater before the first message of the run
MaxHour == 20

RECURSIVE SubmittedInHour(_, _)
\* the storage after i SubmitRating messages of "a1" for "a2" at T0, each
\* with a hash of its own; a message the limiter refuses stores nothing
SubmittedInHour(st, i) ==
    IF i = 0 THEN st
    ELSE CHOOSE after \in
             {execute_submit_rating(before, T0, 1, 0, "a1", "a2", 5,
                                    Hash("q" \o ToString(i), 64, TRUE, TRUE, 0)).st :
                  before \in {SubmittedInHour(st, i - 1)}} : TRUE

InitHour ==
    /\ now = T0
    /\ height = 1
    /\ tx_count = 0
    /\ lastResult = NoCall
    /\ \E i \in {0, 9, 10, 11, 12, 15, MaxHour - 1, MaxHour},
          karma_of_a1 \in {100, 200, 600, 1500} :
          Holds(SubmittedInHour(SeededStorage(karma_of_a1, 50), i))

NextHour ==
    \/ \E sender \in Agents, rated_agent \in Agents :
          SubmitRating(sender, rated_agent, 5, HashFresh)
    \/ \E agent \in Agents : RunAbuseDetection(agent)
    \* the last second of the limiter's window and the first after it
    \/ \E d \in {RATING_PATTERN_WINDOW, RATING_PATTERN_WINDOW + 1} : Tick(d)

SpecHour == InitHour /\ [][NextHour]_vars

(***************************************************************************)
(* Properties.  A property of a message is stated on the handler applied   *)
(* to the storage of every reachable state, for every input of a set.      *)
(***************************************************************************)
\* the model sends one more message from this state
Sending == tx_count < MaxTx
\* u8 scores the properties try
U8Scores == {0, 1, 10, 11, 255}
AllHashes == {HashFresh, HashExpired, HashShort, HashWord}
Score(st, agent) == get_agent_karma_score(st, agent)

\* C1: for every score s in 0..255, submitRating is rejected with
\* InvalidRatingScore iff s < 1 or s > 10, whatever the rest of the submission
\* is; a score in 1..10 is never rejected with InvalidRatingScore.
C1_InvalidScoreIffOutOfRange ==
    Sending =>
    \A rater \in Agents, rated_agent \in Rated, score \in U8Scores, h \in AllHashes,
       wall \in WallClocks :
        LET r == execute_submit_rating(Storage, now, height, wall, rater,
                                       rated_agent, score, h)
        IN  (~r.ok /\ r.err.kind = "InvalidRatingScore") <=> (score < 1 \/ score > 10)

\* a score of 0 was rejected as invalid while a rating with score 10 is stored
C1_Witness ==
    /\ lastResult = [op |-> "submit_rating", ok |-> FALSE,
                     err |-> Error("InvalidRatingScore", "", <<0>>)]
    /\ \E id \in DOMAIN ratings : ratings[id].rating.score = 10

\* rater has a stored rating for the interaction hash h
Submitted(rater, h) ==
    \E id \in DOMAIN ratings :
        /\ ratings[id].rating.rater_address = rater
        /\ ratings[id].rating.interaction_hash = h.str

\* C2: once a submitRating by R for H has succeeded, a later submitRating by R
\* with the same H fails with RatingAlreadySubmitted, for any valid score and
\* any other rated principal, whatever R's rate-limit counter and score are.
C2_DuplicateAlwaysReported ==
    Sending =>
    \A rater \in Agents, rated_agent \in Rated, score \in {1, 10},
       h \in Hashes, wall \in WallClocks :
        (rated_agent # rater /\ Submitted(rater, h)) =>
            LET r == execute_submit_rating(Storage, now, height, wall, rater,
                                           rated_agent, score, h)
            IN  ~r.ok /\ r.err.kind = "RatingAlreadySubmitted"

\* C3: the rating store holds at most one rating for each (interaction hash,
\* rater) pair, and no step modifies or removes a stored rating.
C3_RatingsUniqueAndImmutable ==
    [][ /\ \A id \in DOMAIN ratings :
              id \in DOMAIN ratings' /\ ratings'[id] = ratings[id]
        /\ \A id1, id2 \in DOMAIN ratings' :
              ( /\ ratings'[id1].rating.interaction_hash
                     = ratings'[id2].rating.interaction_hash
                /\ ratings'[id1].rating.rater_address
                     = ratings'[id2].rating.rater_address ) => id1 = id2 ]_vars

\* two ratings are stored and the last submission, by a rater who already
\* rated the interaction, was turned down as a duplicate
C3_Witness ==
    /\ Cardinality(DOMAIN ratings) = 2
    /\ lastResult.op = "submit_rating"
    /\ lastResult.err.kind = "RatingAlreadySubmitted"

\* C4: for a challenger with score B and a stake S <= B, createDispute leaves
\* the score at B - S, and resolveDispute run right after it leaves the score
\* at B for overturned, B - S + floor(S/2) for partial and B - S for confirmed.
C4_DisputeArithmetic ==
    Sending =>
    \A challenger \in Agents, violation_id \in ViolationIds, S \in Stakes :
        LET B == Score(Storage, challenger)
            c == execute_create_dispute(Storage, now, challenger, violation_id, S,
                                        "evidence")
        IN  S <= B =>
            /\ c.ok
            /\ Score(c.st, challenger) = B - S
            /\ \A resolution \in {"overturned", "partial", "confirmed"} :
                 LET d == execute_resolve_dispute(c.st, now, "admin", c.val, resolution)
                 IN  /\ d.ok
                     /\ Score(d.st, challenger) =
                            CASE resolution = "overturned" -> B
                              [] resolution = "partial" -> (B - S) + (S \div 2)
                              [] resolution = "confirmed" -> B - S

\* a dispute with an odd stake was resolved as partially overturned
C4_Witness ==
    /\ lastResult = [op |-> "resolve_dispute", ok |-> TRUE, err |-> NoError]
    /\ \E id \in DOMAIN dispute_cases :
          /\ dispute_cases[id].stake_amount = 3
          /\ dispute_cases[id].resolution = <<"PartialOverturned">>

\* C5: resolveDispute succeeds only on a Pending case and resolves it; on a
\* case already resolved the admin gets DisputeAlreadyResolved and nothing
\* changes, so a second resolve call refunds nothing.
C5_ResolveOnlyPending ==
    Sending =>
    \A sender \in Principals, case_id \in CaseIds, resolution \in Resolutions :
        LET r == execute_resolve_dispute(Storage, now, sender, case_id, resolution)
        IN  /\ r.ok =>
                /\ case_id \in DOMAIN dispute_cases
                /\ dispute_cases[case_id].status = "Pending"
                /\ r.st.dispute_cases[case_id].status = "Resolved"
                /\ \A again \in Resolutions :
                     LET r2 == execute_resolve_dispute(r.st, now, sender, case_id, again)
                     IN  ~r2.ok /\ r2.st = r.st
            /\ ( /\ case_id \in DOMAIN dispute_cases
                 /\ dispute_cases[case_id].status # "Pending" ) =>
                /\ ~r.ok
                /\ r.st = Storage
                /\ (sender = "admin" /\ resolution # "withdrawn") =>
                       r.err = Error("DisputeAlreadyResolved", case_id, <<>>)

\* the admin resolved a case a second time and was told it is already resolved
C5_Witness ==
    /\ lastResult.op = "resolve_dispute"
    /\ lastResult.err.kind = "DisputeAlreadyResolved"
    /\ \E id \in DOMAIN dispute_cases :
          /\ dispute_cases[id].status = "Resolved"
          /\ dispute_cases[id].resolution = <<"ViolationOverturned">>

\* C6: createDispute succeeds iff the challenger's score is >= the stake; with
\* a lower score it fails with InsufficientKarma(required = stake, current =
\* score) and changes nothing; on success the stake is debited and the case
\* is stored Pending with no resolution.
C6_CreateDisputeNeedsStake ==
    Sending =>
    \A challenger \in Rated, violation_id \in ViolationIds, S \in Stakes :
        LET B == Score(Storage, challenger)
            c == execute_create_dispute(Storage, now, challenger, violation_id, S,
                                        "evidence")
        IN  /\ c.ok <=> B >= S
            /\ B < S =>
                /\ c.err = Error("InsufficientKarma", "", <<S, B>>)
                /\ c.st = Storage
            /\ c.ok =>
                /\ Score(c.st, challenger) = B - S
                /\ c.val \in DOMAIN c.st.dispute_cases
                /\ c.st.dispute_cases[c.val].challenger = challenger
                /\ c.st.dispute_cases[c.val].stake_amount = S
                /\ c.st.dispute_cases[c.val].status = "Pending"
                /\ c.st.dispute_cases[c.val].resolution = <<>>
                /\ c.st.dispute_cases[c.val].resolved_at = <<>>

\* a stake of 10000 was refused to the principal whose score is 50, and a
\* stake of 10000 was taken from the principal whose score was 10000
C6_Witness ==
    /\ lastResult = [op |-> "create_dispute", ok |-> FALSE,
                     err |-> Error("InsufficientKarma", "", <<10000, 50>>)]
    /\ \E id \in DOMAIN dispute_cases :
          /\ dispute_cases[id].stake_amount = 10000
          /\ dispute_cases[id].status = "Pending"
          /\ karma_scores[dispute_cases[id].challenger].current_score = 0

\* C7: spend_karma is rejected whenever balance - amount < 5 or amount >
\* balance, and then the score and the spent total are unchanged; when it
\* succeeds the score drops by exactly amount and is at least 5 afterwards.
C7_SpendKeepsFloor ==
    Sending =>
    \A agent \in Rated, amount \in Amounts :
        LET B == Score(Storage, agent)
            r == spend_karma(Storage, agent, amount)
        IN  /\ (B - amount < 5 \/ amount > B) =>
                /\ ~r.ok
                /\ Score(r.st, agent) = B
                /\ LoadBalance(r.st, agent)[2] = LoadBalance(Storage, agent)[2]
                /\ r.st = Storage
            /\ r.ok =>
                /\ Score(r.st, agent) = B - amount
                /\ Score(r.st, agent) >= 5
                /\ LoadBalance(r.st, agent)[2] = LoadBalance(Storage, agent)[2] + amount

\* a spend of 45 out of 50 went through, leaving exactly 5, and the next spend
\* of 2, which would have left 3, was refused
C7_Witness ==
    /\ lastResult.op = "spend_karma"
    /\ ~lastResult.ok
    /\ lastResult.err.kind = "MinimumRequirementsNotMet"
    /\ lastResult.err.info = <<5, 5, 2, 3>>
    /\ karma_scores["a2"].current_score = 5
    /\ "a2" \in DOMAIN karma_balance
    /\ karma_balance["a2"] = <<0, 45>>

C9_ScoreBounded ==
    \A agent \in DOMAIN karma_scores :
        /\ karma_scores[agent].current_score >= 0
        /\ karma_scores[agent].current_score <= 10000

\* C10: a submitRating that returns an error leaves every record as it was
\* before the call, the rater's rate-limit tracker included.
C10_FailedSubmitChangesNothing ==
    Sending =>
    \A rater \in Agents, rated_agent \in Rated, score \in RatingScores, h \in AllHashes,
       wall \in WallClocks :
        LET r == execute_submit_rating(Storage, now, height, wall, rater,
                                       rated_agent, score, h)
        IN  ~r.ok => r.st = Storage


\* a call of check_rate_limit can still be made from this state
Calling == tx_count < MaxCalls

\* the count the tracker of the agent holds in the window that contains now:
\* 0 without a tracker and 0 once more than 3600 s passed since window_start
WindowCount(agent) ==
    IF agent \notin DOMAIN rate_limit_trackers THEN 0
    ELSE IF now - rate_limit_trackers[agent].window_start > 3600 THEN 0
    ELSE rate_limit_trackers[agent].count

\* C11: check_rate_limit answers false and leaves the storage, the stored
\* tracker included, as it was when the counter of the current window is at
\* the effective limit; otherwise it answers true, the counter goes up by
\* exactly one, last_action is now, and nothing but the tracker changes.
C11_CheckAndConsume ==
    Calling =>
    \A agent \in LimiterAgents, action_type \in ActionTypes :
        LET r == check_rate_limit(Storage, now, agent, action_type)
            limit == EffectiveLimit(action_type, Score(Storage, agent))
        IN  /\ r.ok
            /\ WindowCount(agent) >= limit => (~r.val /\ r.st = Storage)
            /\ WindowCount(agent) < limit =>
                /\ r.val
                /\ agent \in DOMAIN r.st.rate_limit_trackers
                /\ r.st.rate_limit_trackers[agent].count = WindowCount(agent) + 1
                /\ r.st.rate_limit_trackers[agent].last_action = now
                /\ [r.st EXCEPT !.rate_limit_trackers = Storage.rate_limit_trackers]
                       = Storage

\* a call half an hour after the tenth accepted one was refused, and the
\* tracker still carries the count and the last_action of the tenth
C11_Witness ==
    /\ lastResult.op = "check_rate_limit"
    /\ ~lastResult.allowed
    /\ now = T0 + 1800
    /\ rate_limit_trackers["a2"].count = 10
    /\ rate_limit_trackers["a2"].last_action = T0

\* C12: a call is accepted iff the counter of the current window is below
\* floor(baseLimit x multiplier), the multiplier being 2.0 above 1000, 1.5
\* above 500, 1.2 above 100 and 1.0 otherwise, and the base 10 for "rating",
\* 50 for "interaction" and 20 otherwise; an accepted call never leaves the
\* counter above that limit; with score 0 a "rating" call is accepted at
\* counts 0..9 and refused at count 10.
C12_AcceptedWithinEffectiveLimit ==
    Calling =>
    \A agent \in LimiterAgents, action_type \in ActionTypes :
        LET score == Score(Storage, agent)
            base == IF action_type = "rating" THEN 10
                    ELSE IF action_type = "interaction" THEN 50 ELSE 20
            tenths == IF score > 1000 THEN 20 ELSE IF score > 500 THEN 15
                      ELSE IF score > 100 THEN 12 ELSE 10
            limit == (base * tenths) \div 10
            r == check_rate_limit(Storage, now, agent, action_type)
        IN  /\ r.val <=> WindowCount(agent) < limit
            /\ r.val => r.st.rate_limit_trackers[agent].count <= limit
            /\ (score = 0 /\ action_type = "rating") =>
                   (r.val <=> WindowCount(agent) \in 0..9)

\* the eleventh "rating" call of a principal with score 0 in the hour of the
\* first ten was refused
C12_Witness ==
    /\ lastResult.op = "check_rate_limit"
    /\ lastResult.action_type = "rating"
    /\ ~lastResult.allowed
    /\ karma_scores["a2"].current_score = 0
    /\ tx_count = 11
    /\ now = T0
    /\ rate_limit_trackers["a2"].count = 10
    /\ rate_limit_trackers["a2"].action_type = "rating"
    /\ rate_limit_trackers["a2"].window_start = T0

\* C13: the limiter counts per (principal, action type): a call of one action
\* type changes neither the count nor the remaining quota of the same
\* principal for another action type, so a call of another type is accepted
\* after it iff it was accepted before it.
C13_LimitPerActionType ==
    Calling =>
    \A agent \in LimiterAgents, action_type \in ActionTypes, other \in ActionTypes :
        other # action_type =>
            LET r == check_rate_limit(Storage, now, agent, action_type)
            IN  check_rate_limit(r.st, now, agent, other).val
                    = check_rate_limit(Storage, now, agent, other).val

\* C14: the tracker is reset exactly when now - window_start > 3600: a call
\* at most 3600 s after window_start is judged on the stored count and, when
\* accepted, adds one to it and keeps window_start; a call more than 3600 s
\* after window_start is accepted and leaves count = 1 and window_start = now,
\* whatever the stored count was.
C14_WindowResetsAfterAnHour ==
    Calling =>
    \A agent \in LimiterAgents, action_type \in ActionTypes :
        agent \in DOMAIN rate_limit_trackers =>
            LET t == rate_limit_trackers[agent]
                limit == EffectiveLimit(action_type, Score(Storage, agent))
                r == check_rate_limit(Storage, now, agent, action_type)
            IN  /\ now - t.window_start <= 3600 =>
                    /\ r.val <=> t.count < limit
                    /\ r.val =>
                        /\ r.st.rate_limit_trackers[agent].count = t.count + 1
                        /\ r.st.rate_limit_trackers[agent].window_start = t.window_start
                /\ now - t.window_start > 3600 =>
                    /\ r.val
                    /\ r.st.rate_limit_trackers[agent].count = 1
                    /\ r.st.rate_limit_trackers[agent].window_start = now

\* the twelfth call of a principal with score 0, made 3601 s after its
\* first, was accepted and opened a new window with count 1
C14_Witness ==
    /\ lastResult.op = "check_rate_limit"
    /\ lastResult.allowed
    /\ karma_scores["a2"].current_score = 0
    /\ tx_count = 12
    /\ now = T0 + 3601
    /\ rate_limit_trackers["a2"].count = 1
    /\ rate_limit_trackers["a2"].window_start = now
    /\ rate_limit_trackers["a2"].last_action = now

\* C15: processOracleData sent by the admin fails with
\* OracleDataVerificationFailed when any entry of the batch is unverified,
\* wherever the entry stands, and then no oracle summary of the batch is
\* stored and no score and no history record changes.
C15_UnverifiedBatchStoresNothing ==
    Sending =>
    \A agent \in Agents, batch \in OracleBatches, wall \in WallClocks :
        (\E i \in DOMAIN batch : ~batch[i].verified) =>
            LET r == execute_process_oracle_data(Storage, now, wall, config.admin,
                                                 agent, batch)
            IN  /\ ~r.ok
                /\ r.err.kind = "OracleDataVerificationFailed"
                /\ r.st.oracle_data = oracle_data
                /\ r.st.karma_scores = karma_scores
                /\ r.st.karma_history = karma_history

Inactive(agent) ==
    IF agent \in DOMAIN karma_scores THEN now - karma_scores[agent].last_updated ELSE 0

\* C17: for a principal without received ratings recalculateScore applies
\* only the time decay: the new score is floor(score x factor), the factor
\* being 1.00, 0.95, 0.85 or 0.70 by the time of inactivity, the rating count
\* is 0 and the average is "0.0"; a score of 100 recalculated after 60
\* inactive days is below 100.
C17_NoRatingsOnlyDecay ==
    Sending =>
    \A agent \in Rated, wall \in WallClocks :
        AgentRatingIds(Storage, agent) = {} =>
            LET old == Score(Storage, agent)
                percent == IF Inactive(agent) <= 7 * 86400 THEN 100
                           ELSE IF Inactive(agent) <= 30 * 86400 THEN 95
                           ELSE IF Inactive(agent) <= 90 * 86400 THEN 85
                           ELSE 70
                r == execute_recalculate_karma(Storage, now, wall, agent)
            IN  /\ r.ok
                /\ Score(r.st, agent) = (old * percent) \div 100
                /\ r.st.karma_scores[agent].total_ratings = 0
                /\ r.st.karma_scores[agent].average_rating = 0
                /\ (old = 100 /\ Inactive(agent) = 60 * 86400) =>
                       Score(r.st, agent) < 100

\* C18: the time-decay factor is a step function of the seconds since the
\* principal's last score update: 1.00 up to 7 days, 0.95 up to 30 days, 0.85
\* up to 90 days and 0.70 beyond, each boundary belonging to the lower tier,
\* and 1.00 for a principal without a score record; for a principal with
\* ratings the factor multiplies the base score alone, and the bonuses, the
\* modifier and the external factors are added to the decayed base.
C18_DecayIsAStepFunction ==
    Sending =>
    \A agent \in Rated, wall \in WallClocks :
        LET percent == IF agent \notin DOMAIN karma_scores THEN 100
                       ELSE IF Inactive(agent) <= 604800 THEN 100
                       ELSE IF Inactive(agent) <= 2592000 THEN 95
                       ELSE IF Inactive(agent) <= 7776000 THEN 85
                       ELSE 70
            ids == AgentRatingIds(Storage, agent)
            calculation == calculate_karma_score(Storage, now, wall, agent)
        IN  /\ calculate_time_decay(Storage, now, agent) = percent
            /\ calculation.factors.time_decay = percent
            /\ ids # {} =>
                   calculation.current_score =
                       Min(10000,
                           apply_contextual_modifiers(
                               apply_time_decay(
                                   calculate_base_score_enhanced(Storage, ids, wall)[1],
                                   percent)
                               + calculate_interaction_bonus_enhanced(Storage, ids, wall),
                               calculate_contextual_modifiers_enhanced(Storage, ids))
                           + calculate_external_factors_enhanced(Storage, agent))

\* a principal rated once with 10 was recalculated 90 days and one second
\* later: the factor of the calculation is 0.70
C18_Witness ==
    /\ lastResult = [op |-> "recalculate_karma", ok |-> TRUE, err |-> NoError]
    /\ now = T0 + 7776001
    /\ <<"a2", now>> \in DOMAIN karma_history
    /\ karma_history[<<"a2", now>>].factors.time_decay = 70
    /\ karma_history[<<"a2", now>>].factors.rating_count = 1

\* C19: for a principal with at least one rating the recalculated score is
\* clamp(decay(base) + interactionBonus + modifier + externalFactors, 0,
\* 10000), the clamp being applied once, to the signed sum, also when
\* decay(base) + interactionBonus + modifier is negative and externalFactors
\* is positive.
C19_ClampOfTheSignedSum ==
    Sending =>
    \A agent \in Rated, wall \in WallClocks :
        LET ids == AgentRatingIds(Storage, agent)
            signed_sum ==
                apply_time_decay(calculate_base_score_enhanced(Storage, ids, wall)[1],
                                 calculate_time_decay(Storage, now, agent))
                + calculate_interaction_bonus_enhanced(Storage, ids, wall)
                + calculate_contextual_modifiers_enhanced(Storage, ids)
                + calculate_external_factors_enhanced(Storage, agent)
        IN  ids # {} =>
                calculate_karma_score(Storage, now, wall, agent).current_score
                    = Max(0, Min(10000, signed_sum))

\* C20: spam detection flags a principal as suspicious exactly when, inside the
\* one-hour window, it gave more than 10 ratings, or at least 5 ratings whose
\* population standard deviation is below 0.5, or at least 3 ratings of which
\* one target received more than 80%.
C20_SpamSuspiciousIff ==
    \A agent \in Agents :
        LET ids == {id \in DOMAIN ratings :
                       /\ ratings[id].rating.rater_address = agent
                       /\ ratings[id].rating.timestamp >= now - 3600}
            count == Cardinality(ids)
        IN  detect_spam_ratings(Storage, now, agent).is_suspicious
                <=> \/ count > 10
                    \/ /\ count >= 5
                       /\ VarianceBelowMinimum(RatingScoresOf(Storage, ids))
                    \/ /\ count >= 3
                       /\ RatioAboveSuspicious(MaxTargetCount(Storage, ids), count)

\* C21: bot-behaviour detection reports a principal as suspicious exactly when
\* its tracker holds a count above 50, or a count above 20 with an average
\* interval (the seconds since window_start divided by the count) below 10 s;
\* without a tracker the result is not suspicious.
C21_BotSuspiciousIff ==
    \A agent \in Agents :
        detect_bot_behavior(Storage, now, agent).is_suspicious
            <=> /\ agent \in DOMAIN rate_limit_trackers
                /\ \/ rate_limit_trackers[agent].count > 50
                   \/ /\ rate_limit_trackers[agent].count > 20
                      /\ now - rate_limit_trackers[agent].window_start
                             < 10 * rate_limit_trackers[agent].count

\* C22: manipulation detection over the 24 hours before now reports a
\* principal as suspicious exactly when more than 3 pairs of a rating it gave
\* and a rating it received from the target of that rating lie less than one
\* hour apart, it gave more than 5 ratings and the pairs are more than 30% of
\* the ratings given, or when more than 5 of the ratings it gave have a score
\* of 3 or less and they are more than 70% of the ratings given.
C22_ManipulationSuspiciousIff ==
    \A agent \in Agents :
        LET given == {id \in DOMAIN ratings :
                         /\ ratings[id].rating.rater_address = agent
                         /\ ratings[id].rating.timestamp >= now - 86400}
            received == {id \in DOMAIN ratings :
                            /\ ratings[id].rating.rated_address = agent
                            /\ ratings[id].rating.timestamp >= now - 86400}
            pairs == {pair \in given \X received :
                         /\ ratings[pair[2]].rating.rater_address
                                = ratings[pair[1]].rating.rated_address
                         /\ ratings[pair[1]].rating.timestamp
                                - ratings[pair[2]].rating.timestamp \in -3599..3599}
            low == {id \in given : ratings[id].rating.score <= 3}
        IN  detect_rating_manipulation(Storage, now, agent).is_suspicious
                <=> \/ /\ Cardinality(pairs) > 3
                       /\ Cardinality(given) > 5
                       /\ 10 * Cardinality(pairs) > 3 * Cardinality(given)
                    \/ /\ Cardinality(low) > 5
                       /\ 10 * Cardinality(low) > 7 * Cardinality(given)

\* "a1" gave six ratings of which four went to "a2", "a2" gave one back 3599 s
\* later, and the detection that followed recorded the manipulation
C22_Witness ==
    /\ lastResult.op = "run_abuse_detection"
    /\ Cardinality({id \in DOMAIN ratings : ratings[id].rating.rater_address = "a1"}) = 6
    /\ "a1:RatingManipulation:1003599" \in DOMAIN compliance_violations
    /\ compliance_violations["a1:RatingManipulation:1003599"].penalty_applied = 1200

\* the kinds of the three detectors, in the order run_abuse_detection runs them
DetectorKinds == <<"SpamRating", "BotBehavior", "RatingManipulation">>
\* the id under which the violation of a kind found now is stored
ViolationIdNow(agent, kind) == agent \o ":" \o kind \o ":" \o ToString(now)
\* the penalties of the suspicious results among the three
TotalPenalty(results) ==
    SumFn([i \in 1..3 |-> IF results[i].is_suspicious
                         THEN results[i].recommended_penalty ELSE 0])

\* C23: run_abuse_detection answers with the results of the spam, the bot
\* and the manipulation detector in that order.  For each suspicious result,
\* and for no other, a violation record is stored whose penalty_applied is
\* the recommended penalty 10 x (confidence x 100) x k, k being 1, 2 and 3;
\* the score of the principal goes down by these penalties and stops at 0.
\* A result that is not suspicious has no violation kind and penalty 0, and
\* without a suspicious result the storage stays as it was.
C23_AbuseDetectionPenalises ==
    Sending =>
    \A agent \in Agents :
        LET results == run_abuse_detection(Storage, now, agent)
            r == execute_run_abuse_detection(Storage, now, agent)
            found == {i \in 1..3 : results[i].is_suspicious}
        IN  /\ r.ok
            /\ \A i \in found :
                /\ results[i].violation_type = <<DetectorKinds[i]>>
                /\ results[i].recommended_penalty
                       = 10 * (10 * results[i].confidence_score) * i
                /\ results[i].recommended_penalty > 0
                /\ ViolationIdNow(agent, DetectorKinds[i])
                       \in DOMAIN r.st.compliance_violations
                /\ r.st.compliance_violations[ViolationIdNow(agent, DetectorKinds[i])]
                       .penalty_applied = results[i].recommended_penalty
                /\ r.st.compliance_violations[ViolationIdNow(agent, DetectorKinds[i])]
                       .agent_address = agent
            /\ \A i \in (1..3) \ found :
                /\ results[i].violation_type = <<>>
                /\ results[i].recommended_penalty = 0
            /\ \A id \in DOMAIN r.st.compliance_violations :
                \/ /\ id \in DOMAIN compliance_violations
                   /\ \A i \in found : id # ViolationIdNow(agent, DetectorKinds[i])
                   /\ r.st.compliance_violations[id] = compliance_violations[id]
                \/ \E i \in found : id = ViolationIdNow(agent, DetectorKinds[i])
            /\ found # {} =>
                   Score(r.st, agent)
                       = Max(0, Score(Storage, agent) - TotalPenalty(results))
            /\ \A other \in (DOMAIN r.st.karma_scores) \ {agent} :
                   /\ other \in DOMAIN karma_scores
                   /\ r.st.karma_scores[other] = karma_scores[other]
            /\ found = {} => r.st = Storage

\* a detection that found 51 actions in 210 s took 1600 from the 1500 of
\* "a1": the score stopped at 0 and the violation carries the penalty
C23_Witness ==
    /\ lastResult.op = "run_abuse_detection"
    /\ "a1:BotBehavior:1000210" \in DOMAIN compliance_violations
    /\ compliance_violations["a1:BotBehavior:1000210"].penalty_applied = 1600
    /\ karma_scores["a1"].current_score = 0

\* C24: apply_compliance_penalty sent by the admin with a severity outside
\* 1..10 fails and leaves the storage as it was; with a severity s in 1..10 it
\* stores a violation record with that severity, penalty_applied = 10 x s and
\* disputed = false, and the score of the principal becomes
\* max(0, score - 10 x s) with last_updated = now.  Every stored violation
\* record, manual or found by the detectors, has a severity in 1..10.
C24_ManualPenalty ==
    /\ \A id \in DOMAIN compliance_violations :
           compliance_violations[id].severity \in 1..10
    /\ Sending =>
       \A agent \in Agents, violation_type \in {"spam_rating", "other"},
          severity \in {0, 1, 5, 10, 11, 255} :
           LET r == execute_apply_compliance_penalty(Storage, now, config.admin, agent,
                                                     violation_type, severity, "e")
               id == "manual:" \o agent \o ":" \o violation_type \o ":" \o ToString(now)
           IN  /\ severity \notin 1..10 => (~r.ok /\ r.st = Storage)
               /\ severity \in 1..10 =>
                   /\ r.ok
                   /\ id \in DOMAIN r.st.compliance_violations
                   /\ r.st.compliance_violations[id].severity = severity
                   /\ r.st.compliance_violations[id].penalty_applied = 10 * severity
                   /\ r.st.compliance_violations[id].disputed = FALSE
                   /\ r.st.compliance_violations[id].agent_address = agent
                   /\ Score(r.st, agent) = Max(0, Score(Storage, agent) - 10 * severity)
                   /\ r.st.karma_scores[agent].last_updated = now

\* the admin applied a penalty of severity 10 to "a1" after a detection had
\* stored a violation of its own: both records are in the store
C24_Witness ==
    /\ lastResult.op = "apply_compliance_penalty"
    /\ lastResult.ok
    /\ \E id \in DOMAIN compliance_violations :
           /\ compliance_violations[id].severity = 10
           /\ compliance_violations[id].penalty_applied = 100
    /\ \E id \in DOMAIN compliance_violations :
           compliance_violations[id].violation_type = "SpamRating"
           /\ compliance_violations[id].severity \in {3, 4}

WithKarma(st, agent, score) ==
    [st EXCEPT !.karma_scores =
        Put(@, agent, [LoadKarmaOrDefault(st, agent) EXCEPT !.current_score = score])]

C27_RecalculateIsIdempotent ==
    Sending =>
    \A agent \in Agents, wall \in WallClocks :
        LET first == execute_recalculate_karma(Storage, now, wall, agent)
        IN  Score(execute_recalculate_karma(first.st, now, wall, agent).st, agent)
                = Score(first.st, agent)

\* C28: a SubmitRating that succeeds lowers the score of the rater by the
\* configured rating fee and raises its spent total by the fee; the score it
\* leaves the rater is at least MINIMUM_BALANCE, and the spent total of every
\* other principal is what it was.
C28_SubmitChargesTheFee ==
    Sending =>
    \A rater \in Rated, rated_agent \in Rated, score \in U8Scores, h \in AllHashes,
       wall \in WallClocks :
        LET r == execute_submit_rating(Storage, now, height, wall, rater,
                                       rated_agent, score, h)
            rating_fee == config.karma_config.rating_fee
        IN  r.ok =>
                /\ Score(r.st, rater) = Score(Storage, rater) - rating_fee
                /\ LoadBalance(r.st, rater)[2] = LoadBalance(Storage, rater)[2] + rating_fee
                /\ Score(r.st, rater) >= MINIMUM_BALANCE
                /\ \A other \in Rated \ {rater} :
                       LoadBalance(r.st, other)[2] = LoadBalance(Storage, other)[2]

\* "a1" paid a fee of 48 for a rating of "a2" that was accepted
C28_Witness ==
    /\ lastResult.op = "submit_rating" /\ lastResult.ok
    /\ config.karma_config.rating_fee = 48
    /\ \E id \in DOMAIN ratings :
          /\ ratings[id].rating.rater_address = "a1"
          /\ ratings[id].fee_paid = 48
    /\ LoadBalance(Storage, "a1")[2] = 48
    /\ Score(Storage, "a1") = SeedScore("a1") - 48

\* the amount of earn_karma_from_rating for a score and the karma of a rater
AwardFor(score, rater_karma) ==
    LET amount == CASE score = 6 -> 5 [] score = 7 -> 10 [] score = 8 -> 20
                    [] score = 9 -> 35 [] score = 10 -> 50 [] OTHER -> 0
    IN  amount + (IF rater_karma >= 500 THEN amount \div 2
                  ELSE IF rater_karma >= 200 THEN amount \div 4 ELSE 0)

\* a SubmitRating of a rater that has a given karma when the message arrives
SubmitWithKarma(rater, rated_agent, score, rater_karma) ==
    execute_submit_rating(WithKarma(Storage, rater, rater_karma), now, height, 0,
                          rater, rated_agent, score, HashFresh)

\* the earned total a storage adds to that of a principal
EarnedIn(st, agent) == LoadBalance(st, agent)[1] - LoadBalance(Storage, agent)[1]

\* karma of a rater on both sides of 200 and of 500, before and after a fee
\* of DEFAULT_RATING_FEE
RaterKarmas == {100, 199, 200, 201, 202, 499, 500, 501, 502, 1500}

\* C29: a SubmitRating that succeeds with a score under 6 leaves the earned
\* total of the rated principal unchanged, and one with a score of 6 or more
\* raises it by 5, 10, 20, 35 or 50 (scores 6..10) plus 50% when the rater has
\* a karma of 500 or more and 25% when it has 200 or more, never by more
\* than 100.
C29_AwardFromSixUp ==
    Sending =>
    \A rater \in Agents, rated_agent \in Agents, score \in 1..10,
       rater_karma \in RaterKarmas :
        LET r == SubmitWithKarma(rater, rated_agent, score, rater_karma)
        IN  r.ok =>
                /\ EarnedIn(r.st, rated_agent)
                      = (IF score < 6 THEN 0 ELSE AwardFor(score, rater_karma))
                /\ EarnedIn(r.st, rated_agent) <= 100

\* C29 as the code has it: the karma that selects the 50% and the 25% is the
\* karma of the rater after the rating fee was charged, and the percentage is
\* rounded down.
C29_AwardFromSixUpAfterTheFee ==
    Sending =>
    \A rater \in Agents, rated_agent \in Agents, score \in 1..10,
       rater_karma \in RaterKarmas :
        LET r == SubmitWithKarma(rater, rated_agent, score, rater_karma)
        IN  r.ok =>
                /\ EarnedIn(r.st, rated_agent)
                      = (IF score < 6 THEN 0
                         ELSE AwardFor(score, rater_karma - config.karma_config.rating_fee))
                /\ EarnedIn(r.st, rated_agent) <= 100

\* "a1", whose karma was 10000, rated "a2" with 10, and "a2" earned 75
C29_Witness ==
    /\ lastResult.op = "submit_rating" /\ lastResult.ok
    /\ \E id \in DOMAIN ratings :
          /\ ratings[id].rating.rater_address = "a1"
          /\ ratings[id].rating.rated_address = "a2"
          /\ ratings[id].rating.score = 10
    /\ LoadBalance(Storage, "a2")[1] = 75
    /\ Sending
    /\ SubmitWithKarma("a2", "a1", 6, 501).ok
    /\ EarnedIn(SubmitWithKarma("a2", "a1", 6, 501).st, "a1") = 6

\* the last eight hex digits of an interaction hash as a number, and the age
\* in seconds of the interaction they stand for: 23 h, 24 h, 24 h and 1 s,
\* 25 h, and two values past the 48 h the digits are reduced by
WindowCases ==
    {<<0, 0>>, <<82800, 82800>>, <<86400, 86400>>, <<86401, 86401>>,
     <<90000, 90000>>, <<172800, 0>>, <<262800, 90000>>}

KeepsRecordsAndAddsOne(st) ==
    /\ \A id \in DOMAIN compliance_violations :
          /\ id \in DOMAIN st.compliance_violations
          /\ [st.compliance_violations[id] EXCEPT !.disputed = FALSE]
                 = [compliance_violations[id] EXCEPT !.disputed = FALSE]
    /\ DOMAIN st.compliance_violations # DOMAIN compliance_violations

\* C31: a violation record keeps its severity, evidence, timestamp and
\* penalty_applied once it is stored, and every penalty that is applied, by
\* ApplyCompliancePenalty or by RunAbuseDetection, has a record of its own,
\* also when the principal, the kind and the block time are those of an
\* earlier record.
C31_ViolationRecordsImmutable ==
    Sending =>
    /\ \A agent \in Agents, violation_type \in ViolationTypes, severity \in {1, 10} :
          LET r == execute_apply_compliance_penalty(Storage, now, "admin", agent,
                                                    violation_type, severity, "evidence")
          IN  r.ok => KeepsRecordsAndAddsOne(r.st)
    /\ \A agent \in Agents :
          (\E i \in 1..3 : run_abuse_detection(Storage, now, agent)[i].is_suspicious)
          => KeepsRecordsAndAddsOne(execute_run_abuse_detection(Storage, now, agent).st)

\* a storage keeps every history entry of the state and holds one more
AppendsToHistory(st) ==
    /\ \A key \in DOMAIN karma_history :
          key \in DOMAIN st.karma_history /\ st.karma_history[key] = karma_history[key]
    /\ Cardinality(DOMAIN st.karma_history) = Cardinality(DOMAIN karma_history) + 1

\* C32: every recalculation that succeeds, in SubmitRating, RecalculateKarma
\* or ProcessOracleData, adds one entry to the history and leaves the entries
\* there are as they were, also when the principal was already recalculated
\* at this block time.
C32_HistoryAppendOnly ==
    Sending =>
    /\ \A agent \in Agents :
          AppendsToHistory(execute_recalculate_karma(Storage, now, 0, agent).st)
    /\ \A rater \in Agents, rated_agent \in Agents, score \in {1, 10} :
          LET r == execute_submit_rating(Storage, now, height, 0, rater, rated_agent,
                                         score, HashFresh)
          IN  r.ok => AppendsToHistory(r.st)
    /\ \A agent \in Agents :
          AppendsToHistory(execute_process_oracle_data(Storage, now, 0, "admin", agent,
                                                       <<VerifiedEntry>>).st)

\* C33: ProcessOracleData with verified entries of data types other than
\* performance, cross_chain and sentiment succeeds, and the score it leaves
\* is the score RecalculateKarma would leave in the same state.
C33_UnknownOracleTypesIgnored ==
    Sending =>
    \A agent \in Agents,
       batch \in {<<OracleEntry("weather", now, 7, TRUE)>>,
                  <<OracleEntry("uptime", T0, 64, TRUE),
                    OracleEntry("weather", now, 7, TRUE)>>} :
        LET r == execute_process_oracle_data(Storage, now, 0, "admin", agent, batch)
        IN  /\ r.ok
            /\ Score(r.st, agent)
                   = Score(execute_recalculate_karma(Storage, now, 0, agent).st, agent)

\* a batch with a "weather" entry was accepted for a principal that has a
\* rating, and no entry of a type the engine reads is stored for it
C33_Witness ==
    /\ lastResult.op = "process_oracle_data" /\ lastResult.ok
    /\ \E agent \in Agents :
          /\ <<agent, "weather">> \in DOMAIN oracle_data
          /\ <<agent, "performance">> \notin DOMAIN oracle_data
          /\ AgentRatingIds(Storage, agent) # {}
          /\ Score(Storage, agent) > 0

\* C34: CreateDispute for a violation id no record is stored under fails and
\* takes no stake; a CreateDispute that succeeds sets the disputed flag of the
\* record it names, so that a record is disputed exactly when a dispute case
\* names it.
C34_DisputeNeedsAViolation ==
    /\ \A id \in DOMAIN compliance_violations :
          compliance_violations[id].disputed
              <=> \E case_id \in DOMAIN dispute_cases :
                      dispute_cases[case_id].violation_id = id
    /\ Sending =>
       \A sender \in Agents, violation_id \in ViolationIds, stake_amount \in Stakes :
          LET r == execute_create_dispute(Storage, now, sender, violation_id,
                                          stake_amount, "evidence")
          IN  /\ violation_id \notin DOMAIN compliance_violations
                     => ~r.ok /\ Score(r.st, sender) = Score(Storage, sender)
              /\ r.ok => r.st.compliance_violations[violation_id].disputed

\* C35: the leaderboard agrees with the scores: a principal is listed at most
\* once, under its current score, and every principal that was recalculated
\* and has a score above 0 is listed.
C35_LeaderboardMatchesScores ==
    /\ \A s1 \in DOMAIN leaderboard, s2 \in DOMAIN leaderboard :
          leaderboard[s1] = leaderboard[s2] => s1 = s2
    /\ \A s \in DOMAIN leaderboard : Score(Storage, leaderboard[s]) = s
    /\ \A agent \in Rated :
          ((\E key \in DOMAIN karma_history : key[1] = agent) /\ Score(Storage, agent) > 0)
          => \E s \in DOMAIN leaderboard : leaderboard[s] = agent

\* C36: a CreateDispute that succeeds stores a case under an id of its own
\* and leaves the cases there are as they were, also for a violation that
\* was disputed at this block time; the stake it takes is the stake of the
\* new Pending case.
C36_DisputesNeverOverwritten ==
    Sending =>
    \A sender \in Agents, violation_id \in ViolationIds, stake_amount \in Stakes :
        LET r == execute_create_dispute(Storage, now, sender, violation_id,
                                        stake_amount, "evidence")
        IN  r.ok =>
                /\ \A case_id \in DOMAIN dispute_cases :
                      /\ case_id \in DOMAIN r.st.dispute_cases
                      /\ r.st.dispute_cases[case_id] = dispute_cases[case_id]
                /\ \E case_id \in DOMAIN r.st.dispute_cases \ DOMAIN dispute_cases :
                      /\ r.st.dispute_cases[case_id].status = "Pending"
                      /\ r.st.dispute_cases[case_id].challenger = sender
                      /\ r.st.dispute_cases[case_id].stake_amount
                             = Score(Storage, sender) - Score(r.st, sender)

\* the status of every case is Pending or Resolved, and a case is Resolved
\* exactly when it has a resolution and a time of resolution
DisputeCasesWellFormed ==
    \A case_id \in DOMAIN dispute_cases :
        /\ dispute_cases[case_id].status \in {"Pending", "Resolved"}
        /\ (dispute_cases[case_id].status = "Resolved")
               <=> (dispute_cases[case_id].resolution # <<>>)
        /\ (dispute_cases[case_id].status = "Resolved")
               <=> (dispute_cases[case_id].resolved_at # <<>>)

\* C37: every dispute case is Pending or Resolved, Resolved exactly when its
\* resolution and its time of resolution are set; a step changes a case only
\* from Pending to Resolved, and never its stake, challenger or violation id.
C37_DisputeCaseLifecycle ==
    [][/\ DisputeCasesWellFormed
       /\ \A case_id \in DOMAIN dispute_cases :
             /\ case_id \in DOMAIN dispute_cases'
             /\ dispute_cases'[case_id].stake_amount = dispute_cases[case_id].stake_amount
             /\ dispute_cases'[case_id].challenger = dispute_cases[case_id].challenger
             /\ dispute_cases'[case_id].violation_id = dispute_cases[case_id].violation_id
             /\ dispute_cases'[case_id].status # dispute_cases[case_id].status
                    => /\ dispute_cases[case_id].status = "Pending"
                       /\ dispute_cases'[case_id].status = "Resolved"]_vars

\* a handler result that lowered the score of agent, followed by a
\* recalculation at the same time, leaves the score at or below the debited one
DebitSurvivesRecalculation(result, agent) ==
    (/\ result.ok
     /\ get_agent_karma_score(result.st, agent) < get_agent_karma_score(Storage, agent))
        => \A wall \in WallClocks :
              get_agent_karma_score(
                  execute_recalculate_karma(result.st, now, wall, agent).st, agent)
                  <= get_agent_karma_score(result.st, agent)

\* C38: after a penalty, a dispute stake or a rating fee has lowered the score
\* of a principal, a recalculation at the same time, with no new rating or
\* oracle data, does not raise the score above the debited value; this holds
\* for principals with ratings as well.
C38_DebitsPersistAcrossRecalculation ==
    Sending =>
        \A agent \in Agents :
            /\ \A severity \in Severities, violation_type \in ViolationTypes :
                  DebitSurvivesRecalculation(
                      execute_apply_compliance_penalty(Storage, now, "admin", agent,
                                                       violation_type, severity, "evidence"),
                      agent)
            /\ \A violation_id \in ViolationIds, stake_amount \in Stakes :
                  DebitSurvivesRecalculation(
                      execute_create_dispute(Storage, now, agent, violation_id,
                                             stake_amount, "evidence"),
                      agent)
            /\ \A rated_agent \in Agents, wall \in WallClocks :
                  DebitSurvivesRecalculation(
                      execute_submit_rating(Storage, now, height, wall, agent,
                                            rated_agent, 10, HashFresh),
                      agent)

\* C39: a rater whose every stored rating passed the rate limiter is never
\* flagged by the frequency check of the spam detector: the ratings it gave in
\* the trailing hour do not exceed SPAM_RATING_THRESHOLD, in every karma tier.
C39_AcceptedRaterNeverFlagged ==
    \A agent \in Agents :
        Cardinality(RecentRatingsBy(Storage, now, agent)) <= SPAM_RATING_THRESHOLD

\* C40: every stored RateLimitTracker has a count from 1 to 20, so the bot
\* detector divides by a positive count and neither of its checks holds.
C40_TrackerCountFromOneToTwenty ==
    \A agent \in DOMAIN rate_limit_trackers :
        /\ rate_limit_trackers[agent].count >= 1
        /\ rate_limit_trackers[agent].count <= 20
        /\ ~(rate_limit_trackers[agent].count > BOT_BEHAVIOR_THRESHOLD)
        /\ detect_bot_behavior(Storage, now, agent) = DetectionResult("BotBehavior", 2, 0)

C40_Witness ==
    /\ lastResult.op = "run_abuse_detection"
    /\ "a1" \in DOMAIN rate_limit_trackers
    /\ rate_limit_trackers["a1"].count = 20
    /\ now > rate_limit_trackers["a1"].window_start

====
